---- MODULE Spec2Model ----
(***************************************************************************)
(* Venue identity resolution and merge engine of dfw_openings:             *)
(*   utils/normalize.py   normalize_name, normalize_address                *)
(*   etl/merge.py         classifier, scorer, update_venues_from_...       *)
(*   db.py                venues / source_events tables, upsert_venue      *)
(*                                                                         *)
(* Text values (names, addresses, cities) are sequences of one-character   *)
(* strings.  SQL NULL / Python None of a text column is the one-element    *)
(* sequence NULL, which no text can equal.  Dates are integers:            *)
(* NullDate is None, 0 is the empty string "", and k >= 1 is the k-th ISO  *)
(* date "YYYY-MM-DD" in chronological order, which is also the order of    *)
(* the strings and SQLite's order (NULL < "" < any date).                  *)
(***************************************************************************)
EXTENDS Integers, Sequences, FiniteSets, TLC

----------------------------------------------------------------------------
(* Bounds *)

MaxEvents == 2

MaxDate == 2

MaxVenues == 2

----------------------------------------------------------------------------
(* Text primitives *)

NULL == <<"NULL">>

Null == "NULL"

NullDate == -1

EMPTY == <<>>

UPPER == <<"A","B","C","D","E","F","G","H","I","J","K","L","M",
           "N","O","P","Q","R","S","T","U","V","W","X","Y","Z">>

LOWER == <<"a","b","c","d","e","f","g","h","i","j","k","l","m",
           "n","o","p","q","r","s","t","u","v","w","x","y","z">>

DIGITS == {"0","1","2","3","4","5","6","7","8","9"}

Range(s) == {s[i] : i \in DOMAIN s}

\* str.lower() on one character
lower_char(c) ==
    IF \E i \in DOMAIN UPPER : UPPER[i] = c
    THEN LOWER[CHOOSE i \in DOMAIN UPPER : UPPER[i] = c]
    ELSE c

\* str.lower()
lower(s) == [i \in DOMAIN s |-> lower_char(s[i])]

\* the class \s of re, and the separators of str.split()
IsSpace(c) == c \in {" ", "\t", "\n"}

\* the class [a-z0-9\s] kept by normalize_name
IsKept(c) == c \in Range(LOWER) \/ c \in DIGITS \/ IsSpace(c)

\* Python truthiness of an optional text: None and "" are falsy
FalsyText(s) == s = NULL \/ s = EMPTY

\* Python truthiness of an optional atom (phone, website, ...)
Falsy(v) == v = Null \/ v = ""

\* x or y
Or(x, y) == IF Falsy(x) THEN y ELSE x

RECURSIVE split(_)
\* str.split(): the maximal runs of non-whitespace characters
split(s) ==
    IF s = <<>> THEN <<>>
    ELSE IF IsSpace(Head(s)) THEN split(Tail(s))
    ELSE LET n == IF \E i \in DOMAIN s : IsSpace(s[i])
                  THEN (CHOOSE i \in DOMAIN s :
                          IsSpace(s[i]) /\ \A j \in 1..(i-1) : ~IsSpace(s[j])) - 1
                  ELSE Len(s)
         IN <<SubSeq(s, 1, n)>> \o split(SubSeq(s, n + 1, Len(s)))

RECURSIVE join(_)
\* " ".join(tokens)
join(ts) ==
    IF ts = <<>> THEN <<>>
    ELSE IF Len(ts) = 1 THEN ts[1]
    ELSE ts[1] \o <<" ">> \o join(Tail(ts))

\* old is a prefix of s
StartsWith(s, old) == Len(old) <= Len(s) /\ SubSeq(s, 1, Len(old)) = old

\* k in s
Contains(s, k) ==
    \E i \in 1..(Len(s) - Len(k) + 1) : SubSeq(s, i, i + Len(k) - 1) = k

RECURSIVE replace(_, _, _)
\* s.replace(old, new): non-overlapping occurrences, left to right (old # "")
replace(s, old, new) ==
    IF Len(s) < Len(old) THEN s
    ELSE IF StartsWith(s, old)
         THEN new \o replace(SubSeq(s, Len(old) + 1, Len(s)), old, new)
         ELSE <<Head(s)>> \o replace(Tail(s), old, new)

RECURSIVE collapse(_)
\* re.sub(r"\s+", " ", s)
collapse(s) ==
    IF s = <<>> THEN <<>>
    ELSE IF IsSpace(Head(s))
         THEN IF Len(s) > 1 /\ IsSpace(s[2])
              THEN collapse(Tail(s))
              ELSE <<" ">> \o collapse(Tail(s))
         ELSE <<Head(s)>> \o collapse(Tail(s))

RECURSIVE lstrip(_)
lstrip(s) == IF s # <<>> /\ IsSpace(Head(s)) THEN lstrip(Tail(s)) ELSE s

RECURSIVE rstrip(_)
rstrip(s) ==
    IF s # <<>> /\ IsSpace(s[Len(s)]) THEN rstrip(SubSeq(s, 1, Len(s) - 1)) ELSE s

\* str.strip()
strip(s) == rstrip(lstrip(s))

----------------------------------------------------------------------------
(* utils/normalize.py *)

STOP_WORDS ==
    { <<"l","l","c">>, <<"i","n","c">>, <<"i","n","c",".">>, <<"c","o">>,
      <<"c","o","m","p","a","n","y">>,
      <<"r","e","s","t","a","u","r","a","n","t">>,
      <<"b","a","r">>, <<"l","t","d">>, <<"c","o","r","p">>,
      <<"c","o","r","p","o","r","a","t","i","o","n">> }

\* a slip: the stop words are dropped before the punctuation is removed
normalize_name_stop_words_first(name) ==
    IF FalsyText(name) THEN EMPTY
    ELSE LET s1 == lower(name)
             ts == SelectSeq(split(s1), LAMBDA t : t # <<>> /\ t \notin STOP_WORDS)
             s2 == join(ts)
             s3 == [i \in DOMAIN s2 |-> IF IsKept(s2[i]) THEN s2[i] ELSE " "]
         IN  join(split(s3))

normalize_name(name) ==
    IF FalsyText(name) THEN EMPTY
    ELSE LET s1 == lower(name)
             s2 == [i \in DOMAIN s1 |-> IF IsKept(s1[i]) THEN s1[i] ELSE " "]
             ts == SelectSeq(split(s2), LAMBDA t : t # <<>> /\ t \notin STOP_WORDS)
         IN join(ts)

\* the replacements dict, in insertion order
replacements ==
    << << <<" ","s","t","e"," ">>, <<" ","s","u","i","t","e"," ">> >>,
       << <<" ","s","t"," ">>, <<" ","s","t","r","e","e","t"," ">> >>,
       << <<" ","s","t",".">>, <<" ","s","t","r","e","e","t">> >>,
       << <<" ","r","d"," ">>, <<" ","r","o","a","d"," ">> >>,
       << <<" ","r","d",".">>, <<" ","r","o","a","d">> >>,
       << <<" ","a","v","e"," ">>, <<" ","a","v","e","n","u","e"," ">> >>,
       << <<" ","a","v","e",".">>, <<" ","a","v","e","n","u","e">> >>,
       << <<" ","b","l","v","d"," ">>, <<" ","b","o","u","l","e","v","a","r","d"," ">> >>,
       << <<" ","b","l","v","d",".">>, <<" ","b","o","u","l","e","v","a","r","d">> >>,
       << <<" ","d","r"," ">>, <<" ","d","r","i","v","e"," ">> >>,
       << <<" ","d","r",".">>, <<" ","d","r","i","v","e">> >>,
       << <<" ","l","n"," ">>, <<" ","l","a","n","e"," ">> >>,
       << <<" ","l","n",".">>, <<" ","l","a","n","e">> >>,
       << <<" ","c","t"," ">>, <<" ","c","o","u","r","t"," ">> >>,
       << <<" ","c","t",".">>, <<" ","c","o","u","r","t">> >>,
       << <<" ","p","k","w","y"," ">>, <<" ","p","a","r","k","w","a","y"," ">> >>,
       << <<" ","p","k","w","y",".">>, <<" ","p","a","r","k","w","a","y">> >> >>

RECURSIVE apply_replacements(_, _)
\* for old, new in replacements.items(): s = s.replace(old, new)
apply_replacements(s, i) ==
    IF i > Len(replacements) THEN s
    ELSE apply_replacements(replace(s, replacements[i][1], replacements[i][2]), i + 1)

normalize_address(addr) ==
    IF FalsyText(addr) THEN EMPTY
    ELSE strip(collapse(apply_replacements(lower(addr), 1)))

----------------------------------------------------------------------------
(* config.py *)

BAR_KEYWORDS ==
    << <<"b","a","r">>,
       <<"p","u","b">>,
       <<"t","a","p","r","o","o","m">>,
       <<"s","a","l","o","o","n">>,
       <<"t","a","v","e","r","n">>,
       <<"l","o","u","n","g","e">>,
       <<"b","r","e","w","e","r","y">>,
       <<"b","r","e","w","p","u","b">> >>

RESTAURANT_KEYWORDS ==
    << <<"r","e","s","t","a","u","r","a","n","t">>,
       <<"c","a","f","e">>,
       <<"b","i","s","t","r","o">>,
       <<"e","a","t","e","r","y">>,
       <<"g","r","i","l","l">>,
       <<"d","i","n","e","r">> >>

\* for keyword in keywords: if keyword in text
AnyKeywordIn(keywords, text) ==
    \E i \in DOMAIN keywords : Contains(text, keywords[i])

----------------------------------------------------------------------------
(* etl/merge.py: classifier *)

\* A payload_json column is [kind, obj]: kind "null" is a NULL or empty
\* column, "invalid" is text json.loads rejects, "non_object" is JSON that
\* is not an object (a list, a number, a string, null), "object" is a JSON
\* object.  obj gives every key the classifier reads; ABSENT marks a missing
\* key, NULL a JSON null and NUMBER a JSON number other than 0.
ABSENT == <<"ABSENT">>

NUMBER == <<"NUMBER">>

PayloadKeys == {"license_type", "occupancy", "USE_DESC", "naics_code"}

EmptyObject == [k \in PayloadKeys |-> ABSENT]

\* json.loads(payload_json) if payload_json else {}, {} on JSONDecodeError
load_payload(payload_json) ==
    IF payload_json.kind = "object" THEN payload_json.obj ELSE EmptyObject

\* dict.get(key, default)
get(obj, key, default) == IF obj[key] = ABSENT THEN default ELSE obj[key]

\* (x or "")
OrEmpty(x) == IF FalsyText(x) THEN EMPTY ELSE x

NAICS_DRINKING == <<"7","2","2","4","1","0">>

NAICS_RESTAURANT_PREFIX == <<"7","2","2","5">>

CO_SOURCES == {"DALLAS_CO", "FORTWORTH_CO"}

PERMIT_SOURCES ==
    {"LEWISVILLE_PERMIT", "MESQUITE_PERMIT", "CARROLLTON_PERMIT",
     "PLANO_PERMIT", "FRISCO_PERMIT", "DALLAS_PERMIT", "ARLINGTON_PERMIT",
     "DENTON_PERMIT", "MCKINNEY_PERMIT", "SOUTHLAKE_PERMIT", "FORTWORTH_PERMIT"}

\* payload.get(...) on a value that is no dict
get_raises(payload_json) == payload_json.kind = "non_object"

\* (x or "").lower() on a value that is no text
lower_raises(x) == x = NUMBER

\* infer_venue_type_from_event raises AttributeError
infer_venue_type_raises(event_row) ==
    LET source_system == event_row.source_system
        raw_name      == lower(OrEmpty(event_row.raw_name))
        payload       == load_payload(event_row.payload_json)
        naics         == get(payload, "naics_code", EMPTY)
    IN  IF AnyKeywordIn(BAR_KEYWORDS, raw_name) THEN FALSE
        ELSE IF source_system = "TABC"
             THEN \/ get_raises(event_row.payload_json)
                  \/ lower_raises(get(payload, "license_type", NULL))
        ELSE IF source_system \in CO_SOURCES
             THEN \/ get_raises(event_row.payload_json)
                  \/ lower_raises(get(payload, "occupancy", NULL))
                  \/ lower_raises(get(payload, "USE_DESC", NULL))
        ELSE IF source_system = "SALES_TAX"
             THEN \/ get_raises(event_row.payload_json)
                  \/ (naics # NAICS_DRINKING /\ naics \in {NULL, NUMBER})
        ELSE FALSE

\* a slip: the name is searched for restaurant keywords before the payload
\* is looked at
infer_venue_type_from_event_name_first(event_row) ==
    LET source_system == event_row.source_system
        raw_name      == lower(OrEmpty(event_row.raw_name))
        payload       == load_payload(event_row.payload_json)
        license_type  == lower(OrEmpty(get(payload, "license_type", NULL)))
        combined      == lower(OrEmpty(get(payload, "occupancy", NULL)))
                           \o <<" ">> \o
                         lower(OrEmpty(get(payload, "USE_DESC", NULL)))
        naics         == get(payload, "naics_code", EMPTY)
    IN  IF AnyKeywordIn(BAR_KEYWORDS, raw_name) THEN "bar"
        ELSE IF AnyKeywordIn(RESTAURANT_KEYWORDS, raw_name) THEN "restaurant"
        ELSE IF source_system = "TABC"
             THEN IF AnyKeywordIn(BAR_KEYWORDS, license_type) THEN "bar"
                  ELSE "restaurant"
        ELSE IF source_system \in CO_SOURCES /\ AnyKeywordIn(BAR_KEYWORDS, combined)
             THEN "bar"
        ELSE IF source_system \in CO_SOURCES /\ AnyKeywordIn(RESTAURANT_KEYWORDS, combined)
             THEN "restaurant"
        ELSE IF source_system = "SALES_TAX" /\ naics = NAICS_DRINKING THEN "bar"
        ELSE IF source_system = "SALES_TAX" /\ StartsWith(naics, NAICS_RESTAURANT_PREFIX)
             THEN "restaurant"
        ELSE Null

\* the value infer_venue_type_from_event returns, when it returns
infer_venue_type_from_event(event_row) ==
    LET source_system == event_row.source_system
        raw_name      == lower(OrEmpty(event_row.raw_name))
        payload       == load_payload(event_row.payload_json)
        license_type  == lower(OrEmpty(get(payload, "license_type", NULL)))
        combined      == lower(OrEmpty(get(payload, "occupancy", NULL)))
                           \o <<" ">> \o
                         lower(OrEmpty(get(payload, "USE_DESC", NULL)))
        naics         == get(payload, "naics_code", EMPTY)
    IN  IF AnyKeywordIn(BAR_KEYWORDS, raw_name) THEN "bar"
        ELSE IF source_system = "TABC"
             THEN IF AnyKeywordIn(BAR_KEYWORDS, license_type) THEN "bar"
                  ELSE "restaurant"
        ELSE IF source_system \in CO_SOURCES /\ AnyKeywordIn(BAR_KEYWORDS, combined)
             THEN "bar"
        ELSE IF source_system \in CO_SOURCES /\ AnyKeywordIn(RESTAURANT_KEYWORDS, combined)
             THEN "restaurant"
        ELSE IF source_system = "SALES_TAX" /\ naics = NAICS_DRINKING THEN "bar"
        ELSE IF source_system = "SALES_TAX" /\ StartsWith(naics, NAICS_RESTAURANT_PREFIX)
             THEN "restaurant"
        ELSE IF AnyKeywordIn(RESTAURANT_KEYWORDS, raw_name) THEN "restaurant"
        ELSE Null

\* a slip: a certificate of occupancy counts as a permit
infer_status_from_event_co_permitting(event_row) ==
    LET source_system == event_row.source_system
    IN  IF source_system = "TABC" THEN "permitting"
        ELSE IF source_system = "SALES_TAX" THEN "permitting"
        ELSE IF source_system \in PERMIT_SOURCES THEN "permitting"
        ELSE IF source_system \in CO_SOURCES THEN "permitting"
        ELSE "unknown"

infer_status_from_event(event_row) ==
    LET source_system == event_row.source_system
    IN  IF source_system = "TABC" THEN "permitting"
        ELSE IF source_system = "SALES_TAX" THEN "permitting"
        ELSE IF source_system \in PERMIT_SOURCES THEN "permitting"
        ELSE IF source_system \in CO_SOURCES THEN "opening_soon"
        ELSE "unknown"

----------------------------------------------------------------------------
(* State: the tables of db.py, the merge run, the clock *)

VARIABLES
    venues,            \* venues table: id -> row
    venue_seq,         \* AUTOINCREMENT counter of venues
    source_events,     \* source_events table: id -> row
    event_seq,         \* AUTOINCREMENT counter of source_events
    pc,                \* "idle", or "merge" inside update_venues_from_unmatched_events
    unmatched_events,  \* the rows fetched by the running merge (ids, in fetch order)
    cursor,            \* position of the for loop in unmatched_events
    merged,            \* history: id -> the last_seen_date of every draft upserted into the venue
    outcome,           \* history: what the last step did
    settled,           \* history: the last merge run completed and nothing was inserted since
    upserted,          \* history: event id -> venue id of an upsert whose link was lost
    today,             \* date.today() as a day number
    call,              \* the function call under way: its arguments and results
    lead_activities,   \* lead_activities table: the rows, in insertion order
    df_venues,         \* dashboard.py: the venue ids in the cached load_venues() frame
    procs              \* merge processes on connections of their own: name -> position and locals

vars == <<venues, venue_seq, source_events, event_seq, pc, unmatched_events,
          cursor, merged, outcome, settled, upserted, today, call,
          lead_activities, df_venues, procs>>

----------------------------------------------------------------------------
(* etl/merge.py: scorer *)

\* the day of the merge runs, as a day number; the ISO date k is day k
Today == 5

\* a non-empty text that is not a date
BadDate == -2

\* datetime.strptime(first_seen_date, "%Y-%m-%d") succeeds
IsIsoDate(d) == d >= 1

\* a slip: < instead of <=
recency_bonus_strict(first_seen_date) ==
    IF first_seen_date = NullDate \/ first_seen_date = 0 THEN 0
    ELSE IF ~IsIsoDate(first_seen_date) THEN 0
    ELSE LET days_old == today - first_seen_date
         IN  IF days_old < 3 THEN 50
             ELSE IF days_old < 7 THEN 40
             ELSE IF days_old < 14 THEN 25
             ELSE IF days_old < 30 THEN 10
             ELSE 0

recency_bonus(first_seen_date) ==
    IF first_seen_date = NullDate \/ first_seen_date = 0 THEN 0
    ELSE IF ~IsIsoDate(first_seen_date) THEN 0
    ELSE LET days_old == today - first_seen_date
         IN  IF days_old <= 3 THEN 50
             ELSE IF days_old <= 7 THEN 40
             ELSE IF days_old <= 14 THEN 25
             ELSE IF days_old <= 30 THEN 10
             ELSE 0

calculate_priority_score(venue_type, status, first_seen_date, has_phone, has_website, source_count) ==
    recency_bonus(first_seen_date)
    + (IF status = "permitting" THEN 30
       ELSE IF status = "opening_soon" THEN 40
       ELSE IF status = "open" THEN 10 ELSE 0)
    + (IF venue_type = "bar" THEN 20
       ELSE IF venue_type = "restaurant" THEN 15 ELSE 0)
    + (IF has_phone THEN 25 ELSE 0)
    + (IF has_website THEN 5 ELSE 0)
    + (IF source_count >= 2 THEN 15 ELSE 0)

----------------------------------------------------------------------------
(* db.py: tables *)

NullId == 0

\* no function call is under way
NoCall == [fn |-> "none"]

\* dict.get(key, default) on a venue draft
Get(venue_data, key, default) ==
    IF key \in DOMAIN venue_data THEN venue_data[key] ELSE default

\* x or y on optional texts
OrText(x, y) == IF FalsyText(x) THEN y ELSE x

\* the SQL comparison column = ? : never true when a side is NULL
SqlEq(a, b) == a # NULL /\ b # NULL /\ a = b

\* a slip: the lookup leaves the city out
find_existing_any_city(vs, venue_data) ==
    { id \in DOMAIN vs :
        /\ SqlEq(vs[id].normalized_name, Get(venue_data, "normalized_name", NULL))
        /\ SqlEq(vs[id].normalized_address, Get(venue_data, "normalized_address", NULL)) }

\* SELECT ... FROM venues WHERE normalized_name = ? AND normalized_address = ?
\* AND city = ?   (the ids of the rows found)
find_existing(vs, venue_data) ==
    { id \in DOMAIN vs :
        /\ SqlEq(vs[id].normalized_name, Get(venue_data, "normalized_name", NULL))
        /\ SqlEq(vs[id].normalized_address, Get(venue_data, "normalized_address", NULL))
        /\ SqlEq(vs[id].city, Get(venue_data, "city", NULL)) }

\* status_priority.get(status, 0)
status_priority(status) ==
    CASE status = "open" -> 3
      [] status = "opening_soon" -> 2
      [] status = "permitting" -> 1
      [] OTHER -> 0

\* a slip: the incoming status always wins
updated_status_always_new(new_status, current_status) == new_status

updated_status(new_status, current_status) ==
    IF status_priority(new_status) > status_priority(current_status)
    THEN new_status ELSE current_status

\* a slip: the incoming date always wins
updated_last_seen_always_new(new_last_seen, current_last_seen) == new_last_seen

\* max(new_last_seen, current_last_seen) on two strings
updated_last_seen(new_last_seen, current_last_seen) ==
    IF new_last_seen >= current_last_seen THEN new_last_seen ELSE current_last_seen

\* max() raises TypeError when the draft's last_seen_date is None
upsert_raises_type_error(venue_data) ==
    Get(venue_data, "last_seen_date", 0) = NullDate

\* a slip: the stored score is kept when it is the higher one
update_row_score_merged(existing, venue_data) ==
    LET new_last_seen     == Get(venue_data, "last_seen_date", 0)
        current_last_seen == IF existing.last_seen_date = NullDate
                             THEN 0 ELSE existing.last_seen_date
        new_status        == Get(venue_data, "status", "unknown")
        current_status    == Or(existing.status, "unknown")
        new_score         == Get(venue_data, "priority_score", 50)
    IN  [existing EXCEPT
           !.last_seen_date  = updated_last_seen(new_last_seen, current_last_seen),
           !.venue_type      = Or(Get(venue_data, "venue_type", Null), existing.venue_type),
           !.status          = updated_status(new_status, current_status),
           !.priority_score  = IF existing.priority_score > new_score
                               THEN existing.priority_score ELSE new_score,
           !.phone           = Or(Get(venue_data, "phone", Null), existing.phone),
           !.website         = Or(Get(venue_data, "website", Null), existing.website),
           !.google_place_id = Or(Get(venue_data, "google_place_id", Null),
                                  existing.google_place_id),
           !.naics_code      = OrText(Get(venue_data, "naics_code", NULL),
                                      existing.naics_code)]

\* the row written by the UPDATE branch
update_row(existing, venue_data) ==
    LET new_last_seen     == Get(venue_data, "last_seen_date", 0)
        current_last_seen == IF existing.last_seen_date = NullDate
                             THEN 0 ELSE existing.last_seen_date
        new_status        == Get(venue_data, "status", "unknown")
        current_status    == Or(existing.status, "unknown")
    IN  [existing EXCEPT
           !.last_seen_date  = updated_last_seen(new_last_seen, current_last_seen),
           !.venue_type      = Or(Get(venue_data, "venue_type", Null), existing.venue_type),
           !.status          = updated_status(new_status, current_status),
           !.priority_score  = Get(venue_data, "priority_score",
                                   IF existing.priority_score # 0
                                   THEN existing.priority_score ELSE 50),
           !.phone           = Or(Get(venue_data, "phone", Null), existing.phone),
           !.website         = Or(Get(venue_data, "website", Null), existing.website),
           !.google_place_id = Or(Get(venue_data, "google_place_id", Null),
                                  existing.google_place_id),
           !.naics_code      = OrText(Get(venue_data, "naics_code", NULL),
                                      existing.naics_code)]

\* the row written by the INSERT branch
insert_row(venue_data) ==
    [name               |-> Get(venue_data, "name", NULL),
     normalized_name    |-> Get(venue_data, "normalized_name", NULL),
     address            |-> Get(venue_data, "address", NULL),
     normalized_address |-> Get(venue_data, "normalized_address", NULL),
     city               |-> Get(venue_data, "city", NULL),
     state              |-> Get(venue_data, "state", "TX"),
     zip                |-> Get(venue_data, "zip", Null),
     venue_type         |-> Get(venue_data, "venue_type", Null),
     status             |-> Get(venue_data, "status", "unknown"),
     first_seen_date    |-> Get(venue_data, "first_seen_date", NullDate),
     last_seen_date     |-> Get(venue_data, "last_seen_date", NullDate),
     priority_score     |-> Get(venue_data, "priority_score", 50),
     phone              |-> Get(venue_data, "phone", Null),
     website            |-> Get(venue_data, "website", Null),
     google_place_id    |-> Get(venue_data, "google_place_id", Null),
     naics_code         |-> Get(venue_data, "naics_code", NULL),
     latitude           |-> Null,
     longitude          |-> Null,
     notes              |-> Null,
     lead_status        |-> "new",
     next_follow_up     |-> Null,
     competitor         |-> Null,
     lost_reason        |-> Null]

\* None and "" both count as the empty string
DateStr(d) == IF d = NullDate THEN 0 ELSE d

\* upsert_venue(conn, venue_data) returns venue_id
upsert_venue(venue_data, venue_id) ==
    LET existing == find_existing(venues, venue_data)
    IN  \/ /\ existing = {}
           /\ venue_id = venue_seq + 1
           /\ venues' = [id \in DOMAIN venues \cup {venue_id} |->
                           IF id = venue_id THEN insert_row(venue_data) ELSE venues[id]]
           /\ venue_seq' = venue_id
           /\ merged' = [id \in DOMAIN merged \cup {venue_id} |->
                           IF id = venue_id
                           THEN {DateStr(Get(venue_data, "last_seen_date", NullDate))}
                           ELSE merged[id]]
        \/ /\ venue_id \in existing
           /\ ~upsert_raises_type_error(venue_data)
           /\ venues' = [venues EXCEPT ![venue_id] = update_row(@, venue_data)]
           /\ merged' = [merged EXCEPT ![venue_id] =
                           @ \cup {DateStr(Get(venue_data, "last_seen_date", 0))}]
           /\ UNCHANGED venue_seq

\* upsert_venue raises at max(): nothing is written
upsert_venue_raises(venue_data) ==
    /\ find_existing(venues, venue_data) # {}
    /\ upsert_raises_type_error(venue_data)

\* a slip: the UPDATE is never issued
update_source_event_venue_noop(se, event_id, venue_id) == se

\* a slip: the UPDATE lacks its WHERE clause
update_source_event_venue_all(se, event_id, venue_id) ==
    [id \in DOMAIN se |-> [se[id] EXCEPT !.venue_id = venue_id]]

\* UPDATE source_events SET venue_id = ? WHERE id = ?
update_source_event_venue(se, event_id, venue_id) ==
    [se EXCEPT ![event_id].venue_id = venue_id]

RECURSIVE Perms(_)
Perms(S) ==
    IF S = {} THEN { <<>> }
    ELSE UNION { { <<x>> \o p : p \in Perms(S \ {x}) } : x \in S }

\* SELECT * FROM source_events WHERE venue_id IS NULL ORDER BY event_date DESC
\* (the possible results: rows with equal dates come in any order)
get_unmatched_source_events(se) ==
    LET unlinked == { id \in DOMAIN se : se[id].venue_id = NullId }
    IN  { p \in Perms(unlinked) :
            \A i, j \in DOMAIN p :
                i < j => se[p[i]].event_date >= se[p[j]].event_date }

----------------------------------------------------------------------------
(* Inputs *)

T_JoeBar == <<"J","o","e"," ","B","a","r">>

T_joe == <<"j","o","e">>

T_Bar == <<"B","a","r">>

T_MainSt == <<"1"," ","M","a","i","n"," ","S","t",".">>

T_Dallas == <<"D","a","l","l","a","s">>

RawNames == {T_JoeBar, T_joe}

EventDates == {NullDate} \cup (1..MaxDate)

SourceSystems == {"TABC", "DALLAS_CO"}

NoPayload == [kind |-> "null", obj |-> EmptyObject]

\* the events an adapter can hand to insert_source_events: for one city,
\* every combination of two spellings of one business, a date or none and
\* two sources; the same business without a city, with a date or none; and
\* two events that lack a usable name or address
EventInputs ==
    [source_system : SourceSystems, event_date : EventDates, raw_name : RawNames,
     raw_address : {T_MainSt}, city : {T_Dallas}, payload_json : {NoPayload}]
    \cup
    [source_system : {"TABC"}, event_date : EventDates, raw_name : {T_JoeBar},
     raw_address : {T_MainSt}, city : {NULL}, payload_json : {NoPayload}]
    \cup
    { [source_system |-> "TABC", event_date |-> 1, raw_name |-> T_Bar,
       raw_address |-> T_MainSt, city |-> T_Dallas, payload_json |-> NoPayload],
      [source_system |-> "TABC", event_date |-> 1, raw_name |-> T_JoeBar,
       raw_address |-> NULL, city |-> T_Dallas, payload_json |-> NoPayload] }

T_MainStBare == <<"1"," ","M","a","i","n"," ","S","t">>

T_MainStreet == <<"1"," ","M","a","i","n"," ","S","t","r","e","e","t">>

\* one business reported by a licence source and by a certificate of
\* occupancy, its street suffix abbreviated at the end of the address,
\* abbreviated with a period, or spelled out
SuffixEvents ==
    [source_system : {"TABC", "DALLAS_CO"}, event_date : 1..MaxDate,
     raw_name : {T_JoeBar}, raw_address : {T_MainStBare, T_MainSt, T_MainStreet},
     city : {T_Dallas}, payload_json : {NoPayload}]

T_TireCo == <<"T","i","r","e"," ","C","o">>

\* a bar and a tire shop at one address
CleanEvents ==
    [source_system : {"TABC"}, event_date : {1}, raw_name : {T_JoeBar, T_TireCo},
     raw_address : {T_MainSt}, city : {T_Dallas}, payload_json : {NoPayload}]

\* events of a licence source and of a source the classifier does not know,
\* with a date or none, with a usable name or a name of stop words only
LiveEvents ==
    [source_system : {"TABC", "OTHER"}, event_date : {NullDate, 1},
     raw_name : {T_joe, T_Bar}, raw_address : {T_MainSt}, city : {T_Dallas},
     payload_json : {NoPayload}]

T_DALLAS == <<"D","A","L","L","A","S">>

\* one bar reported with its city in capitals and in title case
CityEvents ==
    [source_system : {"TABC"}, event_date : {1, MaxDate}, raw_name : {T_JoeBar},
     raw_address : {T_MainSt}, city : {T_Dallas, T_DALLAS}, payload_json : {NoPayload}]

AllEvents == EventInputs \cup SuffixEvents \cup CleanEvents \cup LiveEvents \cup CityEvents

----------------------------------------------------------------------------
(* Operations *)

\* the empty database of ensure_schema, and no merge run under way
InitTables ==
    /\ venues = <<>>
    /\ venue_seq = 0
    /\ source_events = <<>>
    /\ event_seq = 0
    /\ pc = "idle"
    /\ unmatched_events = <<>>
    /\ cursor = 1
    /\ merged = <<>>
    /\ outcome = "init"
    /\ settled = FALSE
    /\ upserted = <<>>
    /\ lead_activities = <<>>
    /\ df_venues = {}
    /\ procs = <<>>

Init ==
    /\ InitTables
    /\ today = Today
    /\ call = NoCall

\* insert_source_events(conn, [event])
insert_source_events(event) ==
    /\ pc = "idle"
    /\ event_seq < MaxEvents
    /\ event_seq' = event_seq + 1
    /\ source_events' =
         [id \in DOMAIN source_events \cup {event_seq + 1} |->
            IF id = event_seq + 1
            THEN [venue_id |-> NullId, source_system |-> event.source_system,
                  event_date |-> event.event_date, raw_name |-> event.raw_name,
                  raw_address |-> event.raw_address, city |-> event.city,
                  payload_json |-> event.payload_json]
            ELSE source_events[id]]
    /\ outcome' = "inserted"
    /\ settled' = FALSE
    /\ UNCHANGED <<venues, venue_seq, pc, unmatched_events, cursor, merged>>
    /\ UNCHANGED <<upserted, today, call, lead_activities, df_venues, procs>>

\* update_venues_from_unmatched_events: the fetch before the loop
StartMerge ==
    /\ pc = "idle"
    /\ pc' = "merge"
    /\ unmatched_events' \in get_unmatched_source_events(source_events)
    /\ cursor' = 1
    /\ outcome' = "fetched"
    /\ UNCHANGED <<venues, venue_seq, source_events, event_seq, merged, settled>>
    /\ UNCHANGED <<upserted, today, call, lead_activities, df_venues, procs>>

\* the event of the current loop iteration
CurrentEvent == source_events[unmatched_events[cursor]]

\* a slip: and instead of or
skip_event_both(norm_name, norm_address) ==
    norm_name = EMPTY /\ norm_address = EMPTY

\* if not norm_name or not norm_address
skip_event(norm_name, norm_address) ==
    norm_name = EMPTY \/ norm_address = EMPTY

\* lines 210-219 and 225-231 of the loop body, which depend on the event
\* alone, tabulated once for every event
\* (@@ makes TLC build the table instead of re-evaluating the body)
Prepared ==
    [event \in AllEvents |->
        [norm_name    |-> normalize_name(event.raw_name),
         norm_address |-> normalize_address(event.raw_address),
         skip         |-> skip_event(normalize_name(event.raw_name),
                                     normalize_address(event.raw_address)),
         venue_type   |-> infer_venue_type_from_event(event),
         status       |-> infer_status_from_event(event),
         naics_code   |-> get(load_payload(event.payload_json),
                              "naics_code", NULL)]] @@ <<>>

\* the venue_data built from one event
venue_data_of(event) ==
    LET venue_type == Prepared[event].venue_type
        status     == Prepared[event].status
    IN  [name               |-> event.raw_name,
         normalized_name    |-> Prepared[event].norm_name,
         address            |-> event.raw_address,
         normalized_address |-> Prepared[event].norm_address,
         city               |-> event.city,
         state              |-> "TX",
         zip                |-> Null,
         venue_type         |-> venue_type,
         status             |-> status,
         first_seen_date    |-> event.event_date,
         last_seen_date     |-> event.event_date,
         priority_score     |-> calculate_priority_score(venue_type, status,
                                    event.event_date, FALSE, FALSE, 1),
         naics_code         |-> Prepared[event].naics_code]

\* the columns of a row that insert_source_events sets
EventOf(row) ==
    [source_system |-> row.source_system, event_date |-> row.event_date,
     raw_name |-> row.raw_name, raw_address |-> row.raw_address,
     city |-> row.city, payload_json |-> row.payload_json]

InLoop == pc = "merge" /\ cursor <= Len(unmatched_events)

\* one loop iteration that skips the event
MergeSkip ==
    /\ InLoop
    /\ Prepared[EventOf(CurrentEvent)].skip
    /\ cursor' = cursor + 1
    /\ outcome' = "skipped"
    /\ UNCHANGED <<venues, venue_seq, source_events, event_seq, pc,
                   unmatched_events, merged, settled>>
    /\ UNCHANGED <<upserted, today, call, lead_activities, df_venues, procs>>

\* a different design: an event of unknown type and unknown status is passed
\* over
MergeEventClassifiedOnly ==
    /\ InLoop
    /\ ~Prepared[EventOf(CurrentEvent)].skip
    /\ IF /\ Prepared[EventOf(CurrentEvent)].venue_type = Null
          /\ Prepared[EventOf(CurrentEvent)].status = "unknown"
       THEN /\ outcome' = "skipped"
            /\ UNCHANGED <<venues, venue_seq, source_events, merged>>
       ELSE /\ \E venue_id \in DOMAIN venues \cup {venue_seq + 1} :
                 /\ upsert_venue(venue_data_of(EventOf(CurrentEvent)), venue_id)
                 /\ source_events' = update_source_event_venue(source_events,
                                         unmatched_events[cursor], venue_id)
            /\ outcome' = "linked"
    /\ cursor' = cursor + 1
    /\ upserted' = [e \in DOMAIN upserted \ {unmatched_events[cursor]} |-> upserted[e]]
    /\ UNCHANGED <<event_seq, pc, unmatched_events, settled, today, call, lead_activities, df_venues, procs>>

\* one loop iteration that upserts the venue and links the event
MergeEvent ==
    /\ InLoop
    /\ ~Prepared[EventOf(CurrentEvent)].skip
    /\ \E venue_id \in DOMAIN venues \cup {venue_seq + 1} :
         /\ upsert_venue(venue_data_of(EventOf(CurrentEvent)), venue_id)
         /\ source_events' = update_source_event_venue(source_events,
                                 unmatched_events[cursor], venue_id)
    /\ cursor' = cursor + 1
    /\ outcome' = "linked"
    /\ upserted' = [e \in DOMAIN upserted \ {unmatched_events[cursor]} |-> upserted[e]]
    /\ UNCHANGED <<event_seq, pc, unmatched_events, settled, today, call, lead_activities, df_venues, procs>>

\* one loop iteration in which upsert_venue raises TypeError: the exception
\* leaves update_venues_from_unmatched_events and main exits
MergeTypeError ==
    /\ InLoop
    /\ ~Prepared[EventOf(CurrentEvent)].skip
    /\ upsert_venue_raises(venue_data_of(EventOf(CurrentEvent)))
    /\ pc' = "idle"
    /\ unmatched_events' = <<>>
    /\ cursor' = 1
    /\ outcome' = "type_error"
    /\ settled' = FALSE
    /\ UNCHANGED <<venues, venue_seq, source_events, event_seq, merged>>
    /\ UNCHANGED <<upserted, today, call, lead_activities, df_venues, procs>>

\* a different design: the loop body catches the error and goes on
MergePersistenceErrorContinue ==
    /\ InLoop
    /\ ~Prepared[EventOf(CurrentEvent)].skip
    /\ cursor' = cursor + 1
    /\ outcome' = "persistence_error"
    /\ UNCHANGED <<venues, venue_seq, source_events, event_seq, pc,
                   unmatched_events, merged, settled>>
    /\ UNCHANGED <<upserted, today, call, lead_activities, df_venues, procs>>

\* one loop iteration in which upsert_venue raises sqlite3.Error: the
\* statement is not committed, the exception leaves the loop and main exits
MergePersistenceError ==
    /\ InLoop
    /\ ~Prepared[EventOf(CurrentEvent)].skip
    /\ pc' = "idle"
    /\ unmatched_events' = <<>>
    /\ cursor' = 1
    /\ outcome' = "persistence_error"
    /\ settled' = FALSE
    /\ UNCHANGED <<venues, venue_seq, source_events, event_seq, merged>>
    /\ UNCHANGED <<upserted, today, call, lead_activities, df_venues, procs>>

\* the loop is over: update_venues_from_unmatched_events returns
FinishMerge ==
    /\ pc = "merge"
    /\ cursor > Len(unmatched_events)
    /\ pc' = "idle"
    /\ unmatched_events' = <<>>
    /\ cursor' = 1
    /\ outcome' = "completed"
    /\ settled' = TRUE
    /\ UNCHANGED <<venues, venue_seq, source_events, event_seq, merged>>
    /\ UNCHANGED <<upserted, today, call, lead_activities, df_venues, procs>>

Next ==
    \/ \E event \in EventInputs : insert_source_events(event)
    \/ StartMerge
    \/ MergeSkip
    \/ MergeEvent
    \/ MergeTypeError
    \/ MergePersistenceError
    \/ FinishMerge

Spec == Init /\ [][Next]_vars

----------------------------------------------------------------------------
(* A merge run cut between upsert_venue and update_source_event_venue *)

\* one loop iteration in which upsert_venue has committed (db.py:332, 361)
\* and update_source_event_venue raises, or the process is stopped, before
\* its own commit: the venue row stays, the event stays unlinked, main exits
MergeLinkError ==
    /\ InLoop
    /\ ~Prepared[EventOf(CurrentEvent)].skip
    /\ \E venue_id \in DOMAIN venues \cup {venue_seq + 1} :
         /\ upsert_venue(venue_data_of(EventOf(CurrentEvent)), venue_id)
         /\ venue_id <= MaxVenues
         /\ upserted' = [e \in DOMAIN upserted \cup {unmatched_events[cursor]} |->
                            IF e = unmatched_events[cursor] THEN venue_id
                            ELSE upserted[e]]
    /\ pc' = "idle"
    /\ unmatched_events' = <<>>
    /\ cursor' = 1
    /\ outcome' = "link_error"
    /\ settled' = FALSE
    /\ UNCHANGED <<source_events, event_seq, today, call, lead_activities, df_venues, procs>>

NextRetry ==
    \/ \E event \in EventInputs : insert_source_events(event)
    \/ StartMerge
    \/ MergeSkip
    \/ MergeEvent
    \/ MergeTypeError
    \/ MergePersistenceError
    \/ MergeLinkError
    \/ FinishMerge

SpecRetry == Init /\ [][NextRetry]_vars

----------------------------------------------------------------------------
(* Merge runs over events that spell one address in several ways *)

NextSuffix ==
    \/ \E event \in SuffixEvents : insert_source_events(event)
    \/ StartMerge
    \/ MergeEvent
    \/ FinishMerge

SpecSuffix == Init /\ [][NextSuffix]_vars

----------------------------------------------------------------------------
(* Direct calls of db.upsert_venue *)

T_joe_key == normalize_name(T_JoeBar)

T_main_key == normalize_address(T_MainSt)

\* a draft with every key the function reads
FullDrafts ==
    { [name |-> T_JoeBar, normalized_name |-> T_joe_key,
       address |-> T_MainSt, normalized_address |-> T_main_key,
       city |-> T_Dallas, state |-> "TX", zip |-> Null,
       venue_type |-> "bar", status |-> st,
       first_seen_date |-> d, last_seen_date |-> d,
       priority_score |-> 70, phone |-> ph, naics_code |-> NULL] :
      st \in {"permitting", "opening_soon", "open"},
      d \in {NullDate} \cup (1..MaxDate),
      ph \in {"p1", "p2"} }

\* the draft without some of its optional keys
\* (@@ makes TLC build the record once)
Without(venue_data, keys) ==
    [k \in DOMAIN venue_data \ keys |-> venue_data[k]] @@ <<>>

\* the optional keys a caller may leave out
OmittedKeys ==
    { {}, {"status"}, {"phone"}, {"status", "priority_score", "phone"} }

\* drafts of one identity with a city, and two drafts without a city
UpsertDrafts ==
    { Without(d, keys) : d \in FullDrafts, keys \in OmittedKeys }
    \cup
    { [name |-> T_joe, normalized_name |-> T_joe_key,
       address |-> T_MainSt, normalized_address |-> T_main_key,
       city |-> NULL, venue_type |-> Null, status |-> "permitting",
       first_seen_date |-> d, last_seen_date |-> d] : d \in {1, MaxDate} }

\* venue_id = upsert_venue(conn, venue_data), called outside a merge run
CallUpsertVenue(venue_data) ==
    /\ pc = "idle"
    /\ \/ /\ \E venue_id \in DOMAIN venues \cup {venue_seq + 1} :
               /\ upsert_venue(venue_data, venue_id)
               /\ venue_id <= MaxVenues
               /\ outcome' = IF venue_id \in DOMAIN venues THEN "updated" ELSE "created"
       \/ /\ upsert_venue_raises(venue_data)
          /\ outcome' = "type_error"
          /\ UNCHANGED <<venues, venue_seq, merged>>
    /\ UNCHANGED <<source_events, event_seq, pc, unmatched_events, cursor, settled>>
    /\ UNCHANGED <<upserted, today, call, lead_activities, df_venues, procs>>

NextUpsert == \E venue_data \in UpsertDrafts : CallUpsertVenue(venue_data)

SpecUpsert == Init /\ [][NextUpsert]_vars

----------------------------------------------------------------------------
(* run_geocoding.py: Google Places enrichment *)

T_Plano == <<"P","l","a","n","o">>

\* drafts of two venues, with or without a phone
EnrichDrafts ==
    { Without([name |-> T_JoeBar, normalized_name |-> T_joe_key,
               address |-> T_MainSt, normalized_address |-> T_main_key,
               city |-> c, venue_type |-> "bar", status |-> "permitting",
               first_seen_date |-> d, last_seen_date |-> d, phone |-> "p1"], keys) :
      c \in {T_Dallas, T_Plano}, d \in 1..MaxDate, keys \in {{}, {"phone"}} }

\* the details google_places.enrich_venue returns for a place it found: the
\* place id, and a phone and a website or None
PlaceDetails ==
    [phone : {Null, "p9"}, website : {Null, "w1", "w2"},
     google_place_id : {"g1", "g2"}]

\* SELECT ... FROM venues WHERE phone IS NULL ORDER BY last_seen_date DESC
\* LIMIT 50   (the possible results: rows with equal dates come in any order)
get_venues_needing_enrichment(vs) ==
    LET needing == { id \in DOMAIN vs : vs[id].phone = Null }
    IN  { p \in Perms(needing) :
            \A i, j \in DOMAIN p :
                i < j => vs[p[i]].last_seen_date >= vs[p[j]].last_seen_date }

\* UPDATE venues SET phone = ?, website = ?, google_place_id = ? WHERE id = ?
update_venue_enrichment(vs, venue_id, details) ==
    [vs EXCEPT ![venue_id] = [@ EXCEPT !.phone = details.phone,
                                       !.website = details.website,
                                       !.google_place_id = details.google_place_id]]

\* upsert_venue called by another run while no enrichment is under way
EnrichUpsert ==
    /\ call = NoCall
    /\ \E venue_data \in EnrichDrafts : CallUpsertVenue(venue_data)

\* main: venues_enrich = get_venues_needing_enrichment(conn)
StartEnrichment ==
    /\ call = NoCall
    /\ pc = "idle"
    /\ \E p \in get_venues_needing_enrichment(venues) :
         call' = [fn |-> "run_geocoding", venues_enrich |-> p, i |-> 1]
    /\ outcome' = "enrichment_started"
    /\ UNCHANGED <<venues, venue_seq, source_events, event_seq, pc, unmatched_events,
                   cursor, merged, settled, upserted, today,
                   lead_activities, df_venues, procs>>

InEnrichLoop == call.fn = "run_geocoding" /\ call.i <= Len(call.venues_enrich)

\* one loop iteration in which enrich_venue finds the place
EnrichFound ==
    /\ InEnrichLoop
    /\ \E details \in PlaceDetails :
         venues' = update_venue_enrichment(venues, call.venues_enrich[call.i], details)
    /\ call' = [call EXCEPT !.i = @ + 1]
    /\ outcome' = "enriched"
    /\ UNCHANGED <<venue_seq, source_events, event_seq, pc, unmatched_events,
                   cursor, merged, settled, upserted, today,
                   lead_activities, df_venues, procs>>

\* one loop iteration in which enrich_venue returns {}
EnrichNotFound ==
    /\ InEnrichLoop
    /\ call' = [call EXCEPT !.i = @ + 1]
    /\ outcome' = "not_found"
    /\ UNCHANGED <<venues, venue_seq, source_events, event_seq, pc, unmatched_events,
                   cursor, merged, settled, upserted, today,
                   lead_activities, df_venues, procs>>

\* the loop is over
FinishEnrichment ==
    /\ call.fn = "run_geocoding"
    /\ call.i > Len(call.venues_enrich)
    /\ call' = NoCall
    /\ outcome' = "enrichment_done"
    /\ UNCHANGED <<venues, venue_seq, source_events, event_seq, pc, unmatched_events,
                   cursor, merged, settled, upserted, today,
                   lead_activities, df_venues, procs>>

NextEnrich ==
    \/ EnrichUpsert
    \/ StartEnrichment
    \/ EnrichFound
    \/ EnrichNotFound
    \/ FinishEnrichment

SpecEnrich == Init /\ [][NextEnrich]_vars

----------------------------------------------------------------------------
(* Calls of calculate_priority_score *)

\* the day of the first call
FirstDay == 40

\* the last day of the clock
LastDay == 41

\* how often the function is called with the same arguments
MaxCalls == 2

\* first_seen_date: None, "", a text that is no date, and dates on both
\* sides of every age limit on FirstDay and on LastDay
ScoreDates == {NullDate, 0, BadDate, 9, 10, 26, 27, 33, 34, 37, 38, 41}

ScoreInputs ==
    [venue_type : {"bar", "restaurant", Null},
     status : {"permitting", "opening_soon", "open", "unknown"},
     first_seen_date : ScoreDates,
     has_phone : BOOLEAN,
     has_website : BOOLEAN,
     source_count : 0..3]

InitScore ==
    /\ InitTables
    /\ today = FirstDay
    /\ call \in { [fn |-> "calculate_priority_score", args |-> a,
                    results |-> <<>>, days |-> <<>>] : a \in ScoreInputs }

\* a slip: the result depends on the calls made before
CallScoreCounting ==
    /\ call.fn = "calculate_priority_score"
    /\ Len(call.results) < MaxCalls
    /\ call' = [call EXCEPT
                  !.results = Append(@,
                      calculate_priority_score(call.args.venue_type, call.args.status,
                          call.args.first_seen_date, call.args.has_phone,
                          call.args.has_website, call.args.source_count)
                      + Len(call.results)),
                  !.days = Append(@, today)]
    /\ UNCHANGED <<venues, venue_seq, source_events, event_seq, pc, unmatched_events,
                   cursor, merged, outcome, settled, upserted, today,
                   lead_activities, df_venues, procs>>

\* score = calculate_priority_score(...), on the day the clock shows
CallScore ==
    /\ call.fn = "calculate_priority_score"
    /\ Len(call.results) < MaxCalls
    /\ call' = [call EXCEPT
                  !.results = Append(@,
                      calculate_priority_score(call.args.venue_type, call.args.status,
                          call.args.first_seen_date, call.args.has_phone,
                          call.args.has_website, call.args.source_count)),
                  !.days = Append(@, today)]
    /\ UNCHANGED <<venues, venue_seq, source_events, event_seq, pc, unmatched_events,
                   cursor, merged, outcome, settled, upserted, today,
                   lead_activities, df_venues, procs>>

\* midnight: date.today() moves on
Tick ==
    /\ today < LastDay
    /\ today' = today + 1
    /\ UNCHANGED <<venues, venue_seq, source_events, event_seq, pc, unmatched_events,
                   cursor, merged, outcome, settled, upserted, call,
                   lead_activities, df_venues, procs>>

NextScore == CallScore \/ Tick

SpecScore == InitScore /\ [][NextScore]_vars

----------------------------------------------------------------------------
(* Calls of the classifier *)

T_JoeCafe == <<"J","o","e"," ","C","a","f","e">>

T_PubGrill == <<"P","U","B"," ","G","r","i","l","l">>

T_MB == <<"M","B">>

T_Lounge == <<"L","o","u","n","g","e">>

T_Tavern == <<"T","a","v","e","r","n">>

T_Cafe == <<"C","a","f","e">>

T_BAR == <<"B","A","R">>

T_Diner == <<"D","i","n","e","r">>

T_722511 == <<"7","2","2","5","1","1">>

T_111 == <<"1","1","1">>

Object(license_type, occupancy, use_desc, naics_code) ==
    [kind |-> "object",
     obj  |-> [license_type |-> license_type, occupancy |-> occupancy,
               USE_DESC |-> use_desc, naics_code |-> naics_code]]

\* payload_json columns: none, text that is no JSON, JSON that is no object,
\* and objects in which the fields of one source at a time are missing,
\* null, a number or a text with or without a keyword
ClassifierPayloads ==
    { NoPayload,
      [kind |-> "invalid", obj |-> EmptyObject],
      [kind |-> "non_object", obj |-> EmptyObject] }
    \cup { Object(l, ABSENT, ABSENT, ABSENT) :
             l \in {ABSENT, NULL, NUMBER, T_MB, T_Lounge} }
    \cup { Object(ABSENT, o, u, ABSENT) :
             o \in {ABSENT, NULL, T_Tavern, T_Cafe},
             u \in {ABSENT, NUMBER, T_BAR, T_Diner} }
    \cup { Object(ABSENT, ABSENT, ABSENT, n) :
             n \in {NULL, NUMBER, NAICS_DRINKING, T_722511, T_111} }

ClassifierSources ==
    {"TABC", "SALES_TAX", "OTHER"} \cup PERMIT_SOURCES \cup CO_SOURCES

ClassifierNames == {NULL, T_joe, T_JoeBar, T_JoeCafe, T_PubGrill}

ClassifierEvents ==
    [source_system : ClassifierSources, raw_name : ClassifierNames,
     payload_json : ClassifierPayloads]

InitClassify ==
    /\ InitTables
    /\ today = Today
    /\ call \in { [fn |-> "classifier", event_row |-> e,
                    venue_type |-> "pending", status |-> "pending"] :
                  e \in ClassifierEvents }

\* venue_type = infer_venue_type_from_event(event)
CallInferVenueType ==
    /\ call.fn = "classifier"
    /\ call.venue_type = "pending"
    /\ call' = [call EXCEPT !.venue_type =
                  IF infer_venue_type_raises(call.event_row) THEN "AttributeError"
                  ELSE infer_venue_type_from_event(call.event_row)]
    /\ UNCHANGED <<venues, venue_seq, source_events, event_seq, pc, unmatched_events,
                   cursor, merged, outcome, settled, upserted, today,
                   lead_activities, df_venues, procs>>

\* status = infer_status_from_event(event)
CallInferStatus ==
    /\ call.fn = "classifier"
    /\ call.status = "pending"
    /\ call' = [call EXCEPT !.status = infer_status_from_event(call.event_row)]
    /\ UNCHANGED <<venues, venue_seq, source_events, event_seq, pc, unmatched_events,
                   cursor, merged, outcome, settled, upserted, today,
                   lead_activities, df_venues, procs>>

NextClassify == CallInferVenueType \/ CallInferStatus

SpecClassify == InitClassify /\ [][NextClassify]_vars

----------------------------------------------------------------------------
(* Calls of the normalizer *)

\* the longest raw name, in characters
MaxNameLen == 4

\* the longest raw address, in pieces
MaxPieces == 5

\* how often a normalizer is applied to its own output
MaxApply == 2

\* the characters of raw names: they spell the stop words "bar" and "co"
NameChars == {"B", "a", "r", "c", "o", " ", "."}

\* None, and every text of at most MaxNameLen characters
NameInputs ==
    {NULL} \cup UNION { [1..k -> NameChars] : k \in 0..MaxNameLen }

\* the pieces of raw addresses: a number, the suffix st in two spellings,
\* a space, a tab and a period
AddressPieces == { <<"1">>, <<"s","t">>, <<"S","t">>, <<" ">>, <<"\t">>, <<".">> }

RECURSIVE Concat(_)
Concat(ps) == IF ps = <<>> THEN <<>> ELSE Head(ps) \o Concat(Tail(ps))

\* None, and every text of at most MaxPieces pieces
AddressInputs ==
    {NULL} \cup { Concat(ps) : ps \in UNION { [1..k -> AddressPieces] : k \in 0..MaxPieces } }

InitNormalizeName ==
    /\ InitTables
    /\ today = Today
    /\ call \in { [fn |-> "normalize_name", arg |-> x, out |-> <<>>] : x \in NameInputs }

InitNormalizeAddress ==
    /\ InitTables
    /\ today = Today
    /\ call \in { [fn |-> "normalize_address", arg |-> x, out |-> <<>>] :
                  x \in AddressInputs }

\* the argument of the next application: the raw text, then the last output
NextArg == IF call.out = <<>> THEN call.arg ELSE call.out[Len(call.out)]

\* norm_name = normalize_name(...)
CallNormalizeName ==
    /\ call.fn = "normalize_name"
    /\ Len(call.out) < MaxApply
    /\ call' = [call EXCEPT !.out = Append(@, normalize_name(NextArg))]
    /\ UNCHANGED <<venues, venue_seq, source_events, event_seq, pc, unmatched_events,
                   cursor, merged, outcome, settled, upserted, today,
                   lead_activities, df_venues, procs>>

\* norm_address = normalize_address(...)
CallNormalizeAddress ==
    /\ call.fn = "normalize_address"
    /\ Len(call.out) < MaxApply
    /\ call' = [call EXCEPT !.out = Append(@, normalize_address(NextArg))]
    /\ UNCHANGED <<venues, venue_seq, source_events, event_seq, pc, unmatched_events,
                   cursor, merged, outcome, settled, upserted, today,
                   lead_activities, df_venues, procs>>

SpecNormalizeName == InitNormalizeName /\ [][CallNormalizeName]_vars

SpecNormalizeAddress == InitNormalizeAddress /\ [][CallNormalizeAddress]_vars

----------------------------------------------------------------------------
(* Properties *)

\* the identity key of every input event
NormalizedKey ==
    [event \in AllEvents |->
        [name    |-> normalize_name(event.raw_name),
         address |-> normalize_address(event.raw_address)]] @@ <<>>

\* the event has no usable name or no usable address
EmptyKey(row) ==
    \/ NormalizedKey[EventOf(row)].name = EMPTY
    \/ NormalizedKey[EventOf(row)].address = EMPTY

Linked(id) == source_events[id].venue_id # NullId

LinkedEvents(venue_id) ==
    { id \in DOMAIN source_events : source_events[id].venue_id = venue_id }

SetMax(S) == CHOOSE x \in S : \A y \in S : y <= x

SetMin(S) == CHOOSE x \in S : \A y \in S : x <= y

\* C1: no upsert_venue call lowers the rank of a stored status, and a call
\* changes the stored status only to one of strictly higher rank
C1_StatusNeverRegresses ==
    [][\A id \in DOMAIN venues :
          /\ status_priority(venues'[id].status) >= status_priority(venues[id].status)
          /\ venues'[id].status # venues[id].status
               => status_priority(venues'[id].status) > status_priority(venues[id].status)
      ]_vars

\* C1 witness: an update met a venue that is opening_soon after at least two
\* merged drafts, one of which was only permitting or had no status
C1_Witness ==
    /\ outcome = "updated"
    /\ \E id \in DOMAIN venues :
         /\ venues[id].status = "opening_soon"
         /\ Cardinality(merged[id]) >= 2

\* C2: a non-empty phone, website, google_place_id, naics_code or venue_type
\* is never changed by a later upsert
C2_FillIfEmptyNeverChanges ==
    [][\A id \in DOMAIN venues :
          /\ ~Falsy(venues[id].phone) => venues'[id].phone = venues[id].phone
          /\ ~Falsy(venues[id].website) => venues'[id].website = venues[id].website
          /\ ~Falsy(venues[id].google_place_id)
               => venues'[id].google_place_id = venues[id].google_place_id
          /\ ~FalsyText(venues[id].naics_code)
               => venues'[id].naics_code = venues[id].naics_code
          /\ ~Falsy(venues[id].venue_type)
               => venues'[id].venue_type = venues[id].venue_type
      ]_vars

\* C3: when a merge run has completed, the first_seen_date of every venue is
\* the least event_date of the events linked to it
C3_FirstSeenIsMinimum ==
    (pc = "idle" /\ outcome = "completed") =>
        \A id \in DOMAIN venues :
            LinkedEvents(id) # {} =>
                venues[id].first_seen_date =
                    SetMin({ source_events[e].event_date : e \in LinkedEvents(id) })

\* C4: after every upsert_venue call the last_seen_date of every venue is
\* the greatest date of the drafts merged into it (None counting as ""),
\* and no call lowers it
C4_LastSeenIsRunningMax ==
    [][\A id \in DOMAIN venues' :
          /\ DateStr(venues'[id].last_seen_date) = SetMax(merged'[id])
          /\ id \in DOMAIN venues
               => DateStr(venues'[id].last_seen_date) >= DateStr(venues[id].last_seen_date)
      ]_vars

\* C4 witness: a venue that merged the latest date and an earlier one
C4_Witness ==
    /\ outcome = "updated"
    /\ \E id \in DOMAIN venues :
         /\ {1, MaxDate} \subseteq merged[id]
         /\ venues[id].first_seen_date = MaxDate
         /\ venues[id].last_seen_date = MaxDate

\* C5, as stated: a merge run that follows a completed run with no insert in
\* between fetches no event
C5_SecondRunFetchesNothing ==
    (settled /\ pc = "merge") => Len(unmatched_events) = 0

\* C5, amended: a merge run that follows a completed run with no insert in
\* between fetches only events without a usable name or address, and none
\* of its steps changes a venue row or an event row
C5_SecondRunChangesNothing ==
    [][(settled /\ pc = "merge") =>
          /\ \A i \in DOMAIN unmatched_events :
                EmptyKey(source_events[unmatched_events[i]])
          /\ venues' = venues
          /\ source_events' = source_events
      ]_vars

\* C5 witness: the second run went through its events, with venues present
C5_Witness ==
    /\ settled
    /\ pc = "merge"
    /\ Len(unmatched_events) >= 1
    /\ cursor > Len(unmatched_events)
    /\ DOMAIN venues # {}

\* C6: no step deletes an event row or changes a column set at insertion,
\* and a venue_id that is set is never changed again
C6_LinkSetOnce ==
    [][\A id \in DOMAIN source_events :
          /\ id \in DOMAIN source_events'
          /\ EventOf(source_events'[id]) = EventOf(source_events[id])
          /\ Linked(id) => source_events'[id].venue_id = source_events[id].venue_id
      ]_vars

\* C6 witness: an event was linked while another event was already linked
\* to a different venue
C6_Witness ==
    /\ outcome = "linked"
    /\ \E a, b \in DOMAIN source_events :
         /\ Linked(a)
         /\ Linked(b)
         /\ source_events[a].venue_id # source_events[b].venue_id

\* C7: no two venue rows have the same (normalized_name, normalized_address,
\* city), an absent city being a value like any other
C7_OneVenuePerTriple ==
    \A a, b \in DOMAIN venues :
        (/\ venues[a].normalized_name = venues[b].normalized_name
         /\ venues[a].normalized_address = venues[b].normalized_address
         /\ venues[a].city = venues[b].city) => a = b

\* C8: a loop iteration on an event without a usable name or address changes
\* no venue row and no event row and goes on to the next event, and such an
\* event is never linked
C8_SkippedEventUntouched ==
    [][/\ (InLoop /\ EmptyKey(CurrentEvent)) =>
              /\ venues' = venues
              /\ source_events' = source_events
              /\ pc' = "merge"
              /\ unmatched_events' = unmatched_events
              /\ cursor' = cursor + 1
       /\ \A id \in DOMAIN source_events' :
              EmptyKey(source_events'[id]) => source_events'[id].venue_id = NullId
       /\ \A id \in DOMAIN venues' :
              venues'[id].normalized_name # EMPTY /\ venues'[id].normalized_address # EMPTY
      ]_vars

\* C8 witness: a completed run left an event without a usable key unlinked
\* and linked a later-inserted event that came after it in the fetch order
C8_Witness ==
    /\ outcome = "completed"
    /\ \E s, e \in DOMAIN source_events :
         /\ EmptyKey(source_events[s])
         /\ ~Linked(s)
         /\ s < e
         /\ source_events[e].event_date < source_events[s].event_date
         /\ Linked(e)

\* C9: a loop iteration on an event whose event_date is None, unless the
\* database itself fails, stays in the loop and links the event when it has
\* a usable key
C9_NullDateNeverFatal ==
    [][(InLoop /\ CurrentEvent.event_date = NullDate /\ outcome' # "persistence_error") =>
          /\ pc' = "merge"
          /\ ~EmptyKey(CurrentEvent)
               => source_events'[unmatched_events[cursor]].venue_id # NullId
      ]_vars

\* C10, as stated: when upsert_venue raises a persistence error the loop
\* goes on with the next event
C10_PersistenceErrorSkipsOneEvent ==
    [][(InLoop /\ outcome' = "persistence_error") =>
          /\ pc' = "merge"
          /\ cursor' = cursor + 1
      ]_vars

\* C10, amended: when upsert_venue raises a persistence error the run ends
\* there: no venue row and no event row changes, so the events linked before
\* stay linked, and the failing event and the events after it stay unlinked
C10_PersistenceErrorAbortsRun ==
    [][(InLoop /\ outcome' = "persistence_error") =>
          /\ pc' = "idle"
          /\ venues' = venues
          /\ source_events' = source_events
          /\ \A i \in cursor..Len(unmatched_events) :
                source_events'[unmatched_events[i]].venue_id = NullId
      ]_vars

\* C10 witness: a run ended by a persistence error while an event is linked
\* and an event with a usable key, the failing one, is left unlinked
C10_Witness ==
    /\ outcome = "persistence_error"
    /\ \E a \in DOMAIN source_events : Linked(a)
    /\ \E b \in DOMAIN source_events : ~Linked(b) /\ ~EmptyKey(source_events[b])

\* the columns of a venue row that a repeated upsert of the same event must
\* leave alone
KeptColumns(row) ==
    <<row.status, row.venue_type, row.first_seen_date, row.last_seen_date>>

\* C11: in a run that follows a run cut after an upsert and before its link,
\* the loop iteration on that event (unless the database fails again) goes
\* on, creates no venue row, leaves status, venue_type, first_seen_date and
\* last_seen_date of the venue upserted before as they are, and links the
\* event to that venue
C11_RetryReupsertsInPlace ==
    [][\A e \in DOMAIN upserted :
          (/\ InLoop
           /\ unmatched_events[cursor] = e
           /\ outcome' \notin {"persistence_error", "link_error"}) =>
              /\ pc' = "merge"
              /\ venue_seq' = venue_seq
              /\ KeptColumns(venues'[upserted[e]]) = KeptColumns(venues[upserted[e]])
              /\ source_events'[e].venue_id = upserted[e]
      ]_vars

\* C12: every result of calculate_priority_score is the sum of the recency
\* bonus (50, 40, 25, 10, 0 for a first_seen_date at most 3, 7, 14, 30 or
\* more days old; 0 for a missing date or a text that is no date), the
\* status bonus (opening_soon 40, permitting 30, open 10), the type bonus
\* (bar 20, restaurant 15), 25 for a phone, 5 for a website and 15 for two
\* or more sources, and is a natural number
C12_ScoreIsSumOfBonuses ==
    (call.fn = "calculate_priority_score") =>
        \A i \in DOMAIN call.results :
            LET a       == call.args
                age     == call.days[i] - a.first_seen_date
                recency == IF a.first_seen_date \in {NullDate, 0, BadDate} THEN 0
                           ELSE IF age <= 3 THEN 50
                           ELSE IF age <= 7 THEN 40
                           ELSE IF age <= 14 THEN 25
                           ELSE IF age <= 30 THEN 10
                           ELSE 0
                stage   == CASE a.status = "opening_soon" -> 40
                             [] a.status = "permitting" -> 30
                             [] a.status = "open" -> 10
                             [] OTHER -> 0
                type    == CASE a.venue_type = "bar" -> 20
                             [] a.venue_type = "restaurant" -> 15
                             [] OTHER -> 0
                contact == (IF a.has_phone THEN 25 ELSE 0)
                           + (IF a.has_website THEN 5 ELSE 0)
                corroboration == IF a.source_count >= 2 THEN 15 ELSE 0
            IN  /\ call.results[i] = recency + stage + type + contact + corroboration
                /\ call.results[i] \in Nat

\* C12 witness: a bar that is opening_soon, first seen exactly 30 days ago,
\* with phone, website and two sources, scored 10 + 40 + 20 + 25 + 5 + 15
C12_Witness ==
    /\ call.fn = "calculate_priority_score"
    /\ call.args = [venue_type |-> "bar", status |-> "opening_soon",
                    first_seen_date |-> 10, has_phone |-> TRUE,
                    has_website |-> TRUE, source_count |-> 2]
    /\ call.days = <<FirstDay>>
    /\ call.results = <<115>>

TypeReturned == call.venue_type \notin {"pending", "AttributeError"}

\* a text field of the payload (missing and null count as empty) holds one
\* of the keywords, in any case
FieldHas(keywords, key) ==
    LET v == load_payload(call.event_row.payload_json)[key]
    IN  v \notin {ABSENT, NULL, NUMBER} /\ AnyKeywordIn(keywords, lower(v))

\* the raw name holds one of the keywords, in any case
NameHas(keywords) ==
    call.event_row.raw_name # NULL
    /\ AnyKeywordIn(keywords, lower(call.event_row.raw_name))

\* C14: a value returned by infer_venue_type_from_event is: bar when the
\* name holds a bar keyword; else, for TABC, bar when license_type holds a
\* bar keyword and restaurant when not; else, for a certificate of
\* occupancy, bar when occupancy or USE_DESC holds a bar keyword, restaurant
\* when one of them holds a restaurant keyword; else, for SALES_TAX, bar for
\* naics_code 722410 and restaurant for 7225...; else restaurant when the
\* name holds a restaurant keyword; else None
C14_FirstMatchWins ==
    (call.fn = "classifier" /\ TypeReturned) =>
        LET src   == call.event_row.source_system
            naics == load_payload(call.event_row.payload_json)["naics_code"]
            co_bar  == FieldHas(BAR_KEYWORDS, "occupancy")
                         \/ FieldHas(BAR_KEYWORDS, "USE_DESC")
            co_rest == FieldHas(RESTAURANT_KEYWORDS, "occupancy")
                         \/ FieldHas(RESTAURANT_KEYWORDS, "USE_DESC")
            expected ==
                CASE NameHas(BAR_KEYWORDS) -> "bar"
                  [] ~NameHas(BAR_KEYWORDS) /\ src = "TABC" ->
                        IF FieldHas(BAR_KEYWORDS, "license_type")
                        THEN "bar" ELSE "restaurant"
                  [] ~NameHas(BAR_KEYWORDS) /\ src \in {"DALLAS_CO", "FORTWORTH_CO"}
                       /\ (co_bar \/ co_rest) ->
                        IF co_bar THEN "bar" ELSE "restaurant"
                  [] ~NameHas(BAR_KEYWORDS) /\ src = "SALES_TAX"
                       /\ naics = <<"7","2","2","4","1","0">> -> "bar"
                  [] ~NameHas(BAR_KEYWORDS) /\ src = "SALES_TAX"
                       /\ naics \notin {ABSENT, NULL, NUMBER}
                       /\ Len(naics) >= 4
                       /\ SubSeq(naics, 1, 4) = <<"7","2","2","5">> -> "restaurant"
                  [] OTHER ->
                        IF NameHas(RESTAURANT_KEYWORDS) THEN "restaurant" ELSE Null
        IN  call.venue_type = expected

\* C14 witness: a certificate of occupancy whose name holds a restaurant
\* keyword and whose USE_DESC holds a bar keyword is a bar
C14_Witness ==
    /\ call.fn = "classifier"
    /\ call.event_row.source_system = "FORTWORTH_CO"
    /\ call.event_row.raw_name = T_JoeCafe
    /\ call.event_row.payload_json = Object(ABSENT, T_Cafe, T_BAR, ABSENT)
    /\ call.venue_type = "bar"

\* C15: the status infer_status_from_event returns depends on source_system
\* alone: permitting for TABC, SALES_TAX and the building-permit sources,
\* opening_soon for DALLAS_CO and FORTWORTH_CO, unknown for anything else
C15_StatusIsLookupOnSource ==
    (call.fn = "classifier" /\ call.status # "pending") =>
        LET src == call.event_row.source_system
        IN  call.status =
              CASE src \in {"TABC", "SALES_TAX"} -> "permitting"
                [] src \in {"LEWISVILLE_PERMIT", "MESQUITE_PERMIT",
                            "CARROLLTON_PERMIT", "PLANO_PERMIT", "FRISCO_PERMIT",
                            "DALLAS_PERMIT", "ARLINGTON_PERMIT", "DENTON_PERMIT",
                            "MCKINNEY_PERMIT", "SOUTHLAKE_PERMIT",
                            "FORTWORTH_PERMIT"} -> "permitting"
                [] src \in {"DALLAS_CO", "FORTWORTH_CO"} -> "opening_soon"
                [] OTHER -> "unknown"

\* C15 witness: a certificate of occupancy is opening_soon although its name
\* and payload suggest nothing, and the payload is one that makes the type
\* inference fail
C15_Witness ==
    /\ call.fn = "classifier"
    /\ call.event_row.source_system = "DALLAS_CO"
    /\ call.event_row.raw_name = NULL
    /\ call.event_row.payload_json.kind = "non_object"
    /\ call.status = "opening_soon"
    /\ call.venue_type = "AttributeError"

\* C16: no call of infer_venue_type_from_event raises
C16_ClassifierNeverRaises ==
    (call.fn = "classifier") => call.venue_type # "AttributeError"

\* C17: normalize_name gives "" for None and "", its output holds no
\* stop-word token, and applying it to its output gives the output again
C17_NormalizeNameIdempotent ==
    (call.fn = "normalize_name") =>
        /\ (Len(call.out) >= 1 /\ call.arg \in {NULL, EMPTY}) => call.out[1] = EMPTY
        /\ \A i \in DOMAIN call.out :
              \A t \in Range(split(call.out[i])) : t \notin STOP_WORDS
        /\ \A i \in DOMAIN call.out : call.out[i] = call.out[1]

\* C17 witness: "a.co", where removing the period makes the stop word co a
\* token of its own, gives "a" both times
C17_Witness ==
    /\ call.fn = "normalize_name"
    /\ call.arg = <<"a", ".", "c", "o">>
    /\ call.out = << <<"a">>, <<"a">> >>

\* C18: applying normalize_address to its output gives the output again
C18_NormalizeAddressIdempotent ==
    (call.fn = "normalize_address") =>
        \A i \in DOMAIN call.out : call.out[i] = call.out[1]

\* C19: when a merge run has completed, a TABC event at "1 Main St" and a
\* certificate-of-occupancy event of the same name and city at
\* "1 Main Street", inserted after it and not dated before it, are linked
\* to one venue, and that venue is opening_soon
C19_SuffixAtEndIsExpanded ==
    (pc = "idle" /\ outcome = "completed") =>
        \A a, b \in DOMAIN source_events :
            (/\ a < b
             /\ source_events[a].source_system = "TABC"
             /\ source_events[a].raw_address = T_MainStBare
             /\ source_events[b].source_system = "DALLAS_CO"
             /\ source_events[b].raw_address = T_MainStreet
             /\ source_events[a].event_date <= source_events[b].event_date) =>
                /\ source_events[a].venue_id = source_events[b].venue_id
                /\ venues[source_events[a].venue_id].status = "opening_soon"

\* C20: no step of an enrichment run changes a phone, website or
\* google_place_id that is not empty
C20_EnrichmentFillsOnlyEmpty ==
    [][(call.fn = "run_geocoding") =>
          \A id \in DOMAIN venues :
              /\ ~Falsy(venues[id].phone) => venues'[id].phone = venues[id].phone
              /\ ~Falsy(venues[id].website) => venues'[id].website = venues[id].website
              /\ ~Falsy(venues[id].google_place_id)
                   => venues'[id].google_place_id = venues[id].google_place_id
      ]_vars

----------------------------------------------------------------------------
(* scripts/clean_data.py, services/lead_service.py, dashboard.py *)

MaxActivities == 2

EXCLUDE_KEYWORDS ==
    << <<"c","o","n","s","t","r","u","c","t","i","o","n">>,
       <<"c","o","n","t","r","a","c","t","o","r">>,
       <<"e","l","e","c","t","r","i","c">>,
       <<"e","l","e","c","t","r","i","c","a","l">>,
       <<"p","l","u","m","b","i","n","g">>,
       <<"p","l","u","m","b","e","r">>,
       <<"h","v","a","c">>,
       <<"r","o","o","f","i","n","g">>,
       <<"c","r","a","n","e">>,
       <<"g","e","o","t","e","c","h","n","i","c","a","l">>,
       <<"e","x","c","a","v","a","t","i","n","g">>,
       <<"p","a","v","i","n","g">>,
       <<"c","o","n","c","r","e","t","e">>,
       <<"d","r","y","w","a","l","l">>,
       <<"f","l","o","o","r","i","n","g">>,
       <<"p","a","i","n","t","i","n","g">>,
       <<"c","a","r","p","e","n","t","r","y">>,
       <<"w","e","l","d","i","n","g">>,
       <<"d","e","m","o","l","i","t","i","o","n">>,
       <<"e","n","g","i","n","e","e","r","i","n","g">>,
       <<"a","r","c","h","i","t","e","c","t">>,
       <<"s","u","r","v","e","y","i","n","g">>,
       <<"l","i","q","u","o","r">>,
       <<"l","i","q","u","o","r","s">>,
       <<"w","i","n","e"," ","&"," ","s","p","i","r","i","t","s">>,
       <<"t","o","t","a","l"," ","w","i","n","e">>,
       <<"c","o","n","v","e","n","i","e","n","c","e">>,
       <<"f","o","o","d"," ","m","a","r","t">>,
       <<"m","a","r","t"," ">>,
       <<"7","-","e","l","e","v","e","n">>,
       <<"7"," ","e","l","e","v","e","n">>,
       <<"s","h","e","l","l"," ">>,
       <<"e","x","x","o","n">>,
       <<"c","h","e","v","r","o","n">>,
       <<"t","e","x","a","c","o">>,
       <<"v","a","l","e","r","o">>,
       <<"m","u","r","p","h","y">>,
       <<"d","o","l","l","a","r"," ","g","e","n","e","r","a","l">>,
       <<"d","o","l","l","a","r"," ","t","r","e","e">>,
       <<"f","a","m","i","l","y"," ","d","o","l","l","a","r">>,
       <<"g","a","s"," ","s","t","a","t","i","o","n">>,
       <<"f","u","e","l">>,
       <<"g","a","s","o","l","i","n","e">>,
       <<"g","r","o","c","e","r","y">>,
       <<"s","u","p","e","r","m","a","r","k","e","t">>,
       <<"c","h","u","r","c","h">>,
       <<"s","c","h","o","o","l">>,
       <<"h","o","s","p","i","t","a","l">>,
       <<"c","l","i","n","i","c">>,
       <<"m","e","d","i","c","a","l">>,
       <<"o","f","f","i","c","e">>,
       <<"w","a","r","e","h","o","u","s","e">>,
       <<"s","t","o","r","a","g","e">>,
       <<"s","a","l","o","n">>,
       <<"b","a","r","b","e","r">>,
       <<"s","p","a"," ">>,
       <<"n","a","i","l">>,
       <<"a","u","t","o"," ">>,
       <<"c","a","r"," ","w","a","s","h">>,
       <<"t","i","r","e">>,
       <<"m","e","c","h","a","n","i","c">> >>

INCLUDE_KEYWORDS ==
    << <<"r","e","s","t","a","u","r","a","n","t">>,
       <<"g","r","i","l","l">>,
       <<"k","i","t","c","h","e","n">>,
       <<"c","a","f","e">>,
       <<"b","i","s","t","r","o">>,
       <<"d","i","n","e","r">>,
       <<"b","a","r">>,
       <<"p","u","b">>,
       <<"t","a","v","e","r","n">>,
       <<"b","r","e","w","e","r","y">>,
       <<"b","r","e","w","p","u","b">>,
       <<"t","a","p","r","o","o","m">>,
       <<"s","a","l","o","o","n">>,
       <<"p","i","z","z","a">>,
       <<"b","u","r","g","e","r">>,
       <<"t","a","c","o">>,
       <<"s","u","s","h","i">>,
       <<"b","b","q">>,
       <<"b","a","r","b","e","c","u","e">>,
       <<"s","t","e","a","k","h","o","u","s","e">>,
       <<"s","e","a","f","o","o","d">>,
       <<"w","i","n","g","s">>,
       <<"c","h","i","c","k","e","n">>,
       <<"m","e","x","i","c","a","n">>,
       <<"i","t","a","l","i","a","n">>,
       <<"c","h","i","n","e","s","e">>,
       <<"t","h","a","i">>,
       <<"i","n","d","i","a","n">>,
       <<"j","a","p","a","n","e","s","e">>,
       <<"k","o","r","e","a","n">>,
       <<"v","i","e","t","n","a","m","e","s","e">>,
       <<"b","a","k","e","r","y">>,
       <<"d","o","n","u","t">>,
       <<"c","o","f","f","e","e">>,
       <<"t","e","a"," ","h","o","u","s","e">>,
       <<"i","c","e"," ","c","r","e","a","m">>,
       <<"f","r","o","z","e","n"," ","y","o","g","u","r","t">> >>

\* should_exclude(name)
should_exclude(name) ==
    IF FalsyText(name) THEN TRUE
    ELSE IF AnyKeywordIn(INCLUDE_KEYWORDS, lower(name)) THEN FALSE
    ELSE AnyKeywordIn(EXCLUDE_KEYWORDS, lower(name))

\* COALESCE(?, column)
Coalesce(x, y) == IF x = Null THEN y ELSE x

\* a slip: SET status = ? instead of SET lead_status = ?
update_lead_status_sets_status(vs, venue_id, lead_status, next_follow_up, competitor, lost_reason) ==
    [id \in DOMAIN vs |->
        IF id = venue_id
        THEN [vs[id] EXCEPT !.status         = lead_status,
                            !.next_follow_up = Coalesce(next_follow_up, @),
                            !.competitor     = Coalesce(competitor, @),
                            !.lost_reason    = Coalesce(lost_reason, @)]
        ELSE vs[id]]

\* db.update_lead_status: UPDATE venues SET ... WHERE id = ?
update_lead_status(vs, venue_id, lead_status, next_follow_up, competitor, lost_reason) ==
    [id \in DOMAIN vs |->
        IF id = venue_id
        THEN [vs[id] EXCEPT !.lead_status    = lead_status,
                            !.next_follow_up = Coalesce(next_follow_up, @),
                            !.competitor     = Coalesce(competitor, @),
                            !.lost_reason    = Coalesce(lost_reason, @)]
        ELSE vs[id]]

\* db.add_lead_activity: INSERT INTO lead_activities; foreign keys are not
\* enforced (no PRAGMA foreign_keys on the connections of db.py, dashboard.py)
add_lead_activity(la, venue_id, activity_type, notes, activity_outcome, next_action_date) ==
    Append(la, [venue_id |-> venue_id, activity_type |-> activity_type,
                notes |-> notes, outcome |-> activity_outcome,
                next_action_date |-> next_action_date])

\* lead_service.update_follow_up: UPDATE venues SET next_follow_up = ? WHERE id = ?
update_follow_up(vs, venue_id, follow_up_date) ==
    [id \in DOMAIN vs |->
        IF id = venue_id THEN [vs[id] EXCEPT !.next_follow_up = follow_up_date]
        ELSE vs[id]]

\* lead_service.update_notes: UPDATE venues SET notes = ? WHERE id = ?
update_notes(vs, venue_id, notes) ==
    [id \in DOMAIN vs |->
        IF id = venue_id THEN [vs[id] EXCEPT !.notes = notes] ELSE vs[id]]

\* what every lead operation leaves alone
LeadFrame ==
    UNCHANGED <<venue_seq, source_events, event_seq, pc, unmatched_events, cursor,
                merged, settled, upserted, today, call, procs>>

\* dashboard.py: df_venues = load_venues() after the 60 s cache has expired
LoadVenues ==
    /\ df_venues' = DOMAIN venues
    /\ outcome' = "loaded"
    /\ UNCHANGED <<venues, lead_activities>>
    /\ LeadFrame

\* dashboard.py 380-384: the Not Interested button of a venue of df_venues:
\* mark_not_interested(conn, venue_id, reason="not_opening"), refresh_data()
MarkNotInterested(venue_id) ==
    /\ venue_id \in df_venues
    /\ Len(lead_activities) < MaxActivities
    /\ venues' = update_lead_status(venues, venue_id, "not_interested",
                                    Null, Null, "not_opening")
    /\ lead_activities' = add_lead_activity(lead_activities, venue_id, "note",
                              "Not interested: not_opening", "not_interested", Null)
    /\ df_venues' = DOMAIN venues'
    /\ outcome' = "mark_not_interested"
    /\ LeadFrame

\* clean_venues up to the prompt: the ids of the venues to delete
CleanSelect ==
    /\ call = NoCall
    /\ LET to_delete == { id \in DOMAIN venues : should_exclude(venues[id].name) }
       IN  /\ to_delete # {}
           /\ call' = [fn |-> "clean_venues", venue_ids |-> to_delete]
    /\ outcome' = "clean_prompt"
    /\ UNCHANGED <<venues, venue_seq, source_events, event_seq, pc, unmatched_events,
                   cursor, merged, settled, upserted, today, lead_activities,
                   df_venues, procs>>

\* SELECT a FROM t WHERE venue_id NOT IN (ids), as a table id -> row
DeleteWhere(t, ids) ==
    [id \in { i \in DOMAIN t : t[i].venue_id \notin ids } |-> t[id]]

RECURSIVE DeleteRows(_, _)
\* DELETE FROM lead_activities WHERE venue_id IN (ids)
DeleteRows(la, ids) ==
    IF la = <<>> THEN <<>>
    ELSE IF Head(la).venue_id \in ids THEN DeleteRows(Tail(la), ids)
    ELSE <<Head(la)>> \o DeleteRows(Tail(la), ids)

\* clean_venues after the answer "yes": the three DELETEs and the commit
CleanDelete ==
    /\ call.fn = "clean_venues"
    /\ source_events' = DeleteWhere(source_events, call.venue_ids)
    /\ lead_activities' = DeleteRows(lead_activities, call.venue_ids)
    /\ venues' = [id \in DOMAIN venues \ call.venue_ids |-> venues[id]]
    /\ merged' = [id \in DOMAIN merged \ call.venue_ids |-> merged[id]]
    /\ call' = NoCall
    /\ outcome' = "cleaned"
    /\ UNCHANGED <<venue_seq, event_seq, pc, unmatched_events, cursor, settled,
                   upserted, today, df_venues, procs>>

\* clean_venues after any other answer
CleanCancel ==
    /\ call.fn = "clean_venues"
    /\ call' = NoCall
    /\ outcome' = "clean_cancelled"
    /\ UNCHANGED <<venues, venue_seq, source_events, event_seq, pc, unmatched_events,
                   cursor, merged, settled, upserted, today, lead_activities,
                   df_venues, procs>>

NextClean ==
    \/ \E event \in CleanEvents : insert_source_events(event)
    \/ StartMerge
    \/ MergeEvent
    \/ FinishMerge
    \/ LoadVenues
    \/ \E venue_id \in 1..MaxVenues : MarkNotInterested(venue_id)
    \/ CleanSelect
    \/ CleanDelete
    \/ CleanCancel

SpecClean == Init /\ [][NextClean]_vars

\* C21: every non-null source_events.venue_id and every
\* lead_activities.venue_id refers to an existing venue
C21_ReferencesExist ==
    /\ \A e \in DOMAIN source_events :
         source_events[e].venue_id # NullId => source_events[e].venue_id \in DOMAIN venues
    /\ \A i \in DOMAIN lead_activities :
         lead_activities[i].venue_id \in DOMAIN venues

----------------------------------------------------------------------------
(* Merge runs and an enrichment run on connections of their own *)

\* the two merge processes
Procs == {"A", "B"}

\* one business reported by a licence source, and later under another
\* spelling by a certificate of occupancy
RaceEvents ==
    { e \in EventInputs :
        /\ e.city = T_Dallas /\ e.raw_address = T_MainSt
        /\ \/ e.raw_name = T_JoeBar /\ e.source_system = "TABC" /\ e.event_date = 1
           \/ e.raw_name = T_joe /\ e.source_system = "DALLAS_CO"
              /\ e.event_date = MaxDate }

\* the local variables of process p after a step
SetProc(p, locals) ==
    [q \in DOMAIN procs \cup {p} |-> IF q = p THEN locals ELSE procs[q]]

\* what a step of a merge process leaves alone
ProcFrame ==
    UNCHANGED <<event_seq, pc, unmatched_events, cursor, settled, upserted, today,
                call, lead_activities, df_venues>>

\* merge.py 204-231: the loop of process p reaches an event of the batch it
\* fetched and builds venue_data
ProcFetch(p, event_id) ==
    /\ p \notin DOMAIN procs
    /\ event_id \in DOMAIN source_events
    /\ source_events[event_id].venue_id = NullId
    /\ ~Prepared[EventOf(source_events[event_id])].skip
    /\ procs' = SetProc(p, [at |-> "select", event_id |-> event_id,
                            venue_data |-> venue_data_of(EventOf(source_events[event_id]))])
    /\ outcome' = "fetched"
    /\ UNCHANGED <<venues, venue_seq, source_events, merged>>
    /\ ProcFrame

\* db.py 265-281: the SELECT of upsert_venue and fetchone(), in autocommit
\* mode (sqlite3 opens no transaction before a SELECT)
ProcSelect(p) ==
    /\ p \in DOMAIN procs
    /\ procs[p].at = "select"
    /\ LET found == find_existing(venues, procs[p].venue_data)
       IN  \/ /\ found = {}
              /\ procs' = SetProc(p, [procs[p] EXCEPT !.at = "insert"])
           \/ \E id \in found :
                procs' = SetProc(p, [at |-> "update", event_id |-> procs[p].event_id,
                                     venue_data |-> procs[p].venue_data,
                                     venue_id |-> id, existing |-> venues[id]])
    /\ outcome' = "selected"
    /\ UNCHANGED <<venues, venue_seq, source_events, merged>>
    /\ ProcFrame

\* the columns the UPDATE of upsert_venue sets
UpdatedColumns ==
    {"last_seen_date", "venue_type", "status", "priority_score", "phone", "website",
     "google_place_id", "naics_code"}

\* UPDATE venues SET (the eight columns) WHERE id = ?, with the values
\* computed from the row read by the SELECT
update_venue(vs, venue_id, existing, venue_data) ==
    [id \in DOMAIN vs |->
        IF id = venue_id
        THEN [c \in DOMAIN vs[id] |->
                IF c \in UpdatedColumns THEN update_row(existing, venue_data)[c]
                ELSE vs[id][c]]
        ELSE vs[id]]

\* db.py 283-333: the UPDATE branch and its commit
ProcUpdate(p) ==
    /\ p \in DOMAIN procs
    /\ procs[p].at = "update"
    /\ venues' = update_venue(venues, procs[p].venue_id, procs[p].existing,
                              procs[p].venue_data)
    /\ merged' = [merged EXCEPT ![procs[p].venue_id] =
                    @ \cup {DateStr(procs[p].venue_data.last_seen_date)}]
    /\ procs' = SetProc(p, [at |-> "link", event_id |-> procs[p].event_id,
                            venue_id |-> procs[p].venue_id])
    /\ outcome' = "updated"
    /\ UNCHANGED <<venue_seq, source_events>>
    /\ ProcFrame

\* a different design: the INSERT is skipped when a venue of the key exists
\* by now
ProcInsertIfAbsent(p) ==
    /\ p \in DOMAIN procs
    /\ procs[p].at = "insert"
    /\ LET found == find_existing(venues, procs[p].venue_data)
       IN  \/ /\ found = {}
              /\ venue_seq < MaxVenues
              /\ venues' = [id \in DOMAIN venues \cup {venue_seq + 1} |->
                              IF id = venue_seq + 1 THEN insert_row(procs[p].venue_data)
                              ELSE venues[id]]
              /\ venue_seq' = venue_seq + 1
              /\ merged' = [id \in DOMAIN merged \cup {venue_seq + 1} |->
                              IF id = venue_seq + 1
                              THEN {DateStr(procs[p].venue_data.last_seen_date)}
                              ELSE merged[id]]
              /\ procs' = SetProc(p, [at |-> "link", event_id |-> procs[p].event_id,
                                      venue_id |-> venue_seq + 1])
           \/ \E id \in found :
                /\ procs' = SetProc(p, [at |-> "link", event_id |-> procs[p].event_id,
                                        venue_id |-> id])
                /\ UNCHANGED <<venues, venue_seq, merged>>
    /\ outcome' = "created"
    /\ UNCHANGED source_events
    /\ ProcFrame

\* db.py 334-362: the INSERT branch and its commit
ProcInsert(p) ==
    /\ p \in DOMAIN procs
    /\ procs[p].at = "insert"
    /\ venue_seq < MaxVenues
    /\ venues' = [id \in DOMAIN venues \cup {venue_seq + 1} |->
                    IF id = venue_seq + 1 THEN insert_row(procs[p].venue_data)
                    ELSE venues[id]]
    /\ venue_seq' = venue_seq + 1
    /\ merged' = [id \in DOMAIN merged \cup {venue_seq + 1} |->
                    IF id = venue_seq + 1
                    THEN {DateStr(procs[p].venue_data.last_seen_date)}
                    ELSE merged[id]]
    /\ procs' = SetProc(p, [at |-> "link", event_id |-> procs[p].event_id,
                            venue_id |-> venue_seq + 1])
    /\ outcome' = "created"
    /\ UNCHANGED source_events
    /\ ProcFrame

\* merge.py 251-254: update_source_event_venue and the end of the iteration
ProcLink(p) ==
    /\ p \in DOMAIN procs
    /\ procs[p].at = "link"
    /\ source_events' = update_source_event_venue(source_events, procs[p].event_id,
                                                  procs[p].venue_id)
    /\ procs' = [q \in DOMAIN procs \ {p} |-> procs[q]]
    /\ outcome' = "linked"
    /\ UNCHANGED <<venues, venue_seq, merged>>
    /\ ProcFrame

\* run_geocoding.py 47-62: update_venue_enrichment from the enrichment run,
\* for a venue whose phone was NULL when the run selected it
EnrichWrite(venue_id, details) ==
    /\ venue_id \in DOMAIN venues
    /\ venues[venue_id].phone = Null
    /\ venues' = update_venue_enrichment(venues, venue_id, details)
    /\ outcome' = "enriched"
    /\ UNCHANGED <<venue_seq, source_events, event_seq, pc, unmatched_events, cursor,
                   merged, settled, upserted, today, call, lead_activities,
                   df_venues, procs>>

\* the details of the one place Google Places knows at the address
RaceDetails ==
    { d \in PlaceDetails :
        d.phone = "p9" /\ d.website = "w1" /\ d.google_place_id = "g1" }

NextRace ==
    \/ \E event \in RaceEvents : insert_source_events(event)
    \/ \E p \in Procs : \E event_id \in 1..event_seq : ProcFetch(p, event_id)
    \/ \E p \in Procs : ProcSelect(p)
    \/ \E p \in Procs : ProcUpdate(p)
    \/ \E p \in Procs : ProcInsert(p)
    \/ \E p \in Procs : ProcLink(p)
    \/ \E venue_id \in 1..MaxVenues : \E details \in RaceDetails :
         EnrichWrite(venue_id, details)

SpecRace == Init /\ [][NextRace]_vars

\* the enrichment columns
EnrichedColumns == {"phone", "website", "google_place_id"}

\* C22: no lost update: when the UPDATE of an upsert_venue call is applied, a
\* column of the row that another connection has changed since the call's
\* SELECT is not set back to the value the SELECT read
C22_NoLostUpdate ==
    [][ \A p \in DOMAIN procs :
          (procs[p].at = "update" /\ p \in DOMAIN procs' /\ procs'[p].at = "link")
          => \A c \in EnrichedColumns :
               venues[procs[p].venue_id][c] # procs[p].existing[c]
               => venues'[procs[p].venue_id][c] # procs[p].existing[c]
      ]_vars

\* the identity triple of a venue row or a draft
Triple(r) == <<r.normalized_name, r.normalized_address, r.city>>

\* C23: a process whose lookup found no venue inserts a row of its triple
\* whatever the table holds by then, so two processes that both looked up
\* an absent triple leave two rows of it
C23_InsertAfterLookupIsUnconditional ==
    [][ \A p \in DOMAIN procs :
          (procs[p].at = "insert" /\ p \in DOMAIN procs' /\ procs'[p].at = "link")
          => /\ venue_seq' = venue_seq + 1
             /\ procs'[p].venue_id = venue_seq'
             /\ DOMAIN venues' = DOMAIN venues \cup {venue_seq'}
             /\ Triple(venues'[venue_seq']) = Triple(procs[p].venue_data)
      ]_vars

\* both processes have inserted, and the table holds two rows of one triple
C23_Witness ==
    /\ \A p \in Procs : p \in DOMAIN procs /\ procs[p].at = "link"
    /\ procs["A"].venue_id # procs["B"].venue_id
    /\ \E i, j \in DOMAIN venues :
         /\ i # j
         /\ SqlEq(venues[i].normalized_name, venues[j].normalized_name)
         /\ SqlEq(venues[i].normalized_address, venues[j].normalized_address)
         /\ SqlEq(venues[i].city, venues[j].city)

----------------------------------------------------------------------------
(* update_venues_from_unmatched_events as one step, for every order of the batch *)

\* the tables a merge run reads and writes
Tables == [venues |-> venues, venue_seq |-> venue_seq,
           source_events |-> source_events, merged |-> merged, raised |-> FALSE]

\* upsert_venue and update_source_event_venue for one event, on tables db
\* (in one process a key never has two rows, so fetchone() has one choice)
merge_event(db, event_id) ==
    LET venue_data == venue_data_of(EventOf(db.source_events[event_id]))
        found      == find_existing(db.venues, venue_data)
    IN  IF found = {}
        THEN LET venue_id == db.venue_seq + 1
             IN  [venues |-> [id \in DOMAIN db.venues \cup {venue_id} |->
                                IF id = venue_id THEN insert_row(venue_data)
                                ELSE db.venues[id]],
                  venue_seq |-> venue_id,
                  source_events |-> update_source_event_venue(db.source_events,
                                        event_id, venue_id),
                  merged |-> [id \in DOMAIN db.merged \cup {venue_id} |->
                                IF id = venue_id
                                THEN {DateStr(venue_data.last_seen_date)}
                                ELSE db.merged[id]],
                  raised |-> FALSE]
        ELSE IF upsert_raises_type_error(venue_data)
        THEN [db EXCEPT !.raised = TRUE]
        ELSE LET venue_id == CHOOSE id \in found : TRUE
             IN  [venues |-> [db.venues EXCEPT ![venue_id] = update_row(@, venue_data)],
                  venue_seq |-> db.venue_seq,
                  source_events |-> update_source_event_venue(db.source_events,
                                        event_id, venue_id),
                  merged |-> [db.merged EXCEPT ![venue_id] =
                                @ \cup {DateStr(venue_data.last_seen_date)}],
                  raised |-> FALSE]

RECURSIVE merge_events(_, _, _)
\* the for loop of update_venues_from_unmatched_events from position i of the
\* fetched rows; an exception of upsert_venue ends the run
merge_events(db, order, i) ==
    IF i > Len(order) \/ db.raised THEN db
    ELSE IF Prepared[EventOf(db.source_events[order[i]])].skip
    THEN merge_events(db, order, i + 1)
    ELSE merge_events(merge_event(db, order[i]), order, i + 1)

\* a whole run of update_venues_from_unmatched_events
RunMerge ==
    /\ pc = "idle"
    /\ call.fn \in {"none", "update_venues_from_unmatched_events"}
    /\ \E order \in get_unmatched_source_events(source_events) :
         /\ order # <<>>
         /\ LET db == merge_events(Tables, order, 1)
            IN  /\ venues' = db.venues
                /\ venue_seq' = db.venue_seq
                /\ source_events' = db.source_events
                /\ merged' = db.merged
                /\ outcome' = IF db.raised THEN "type_error" ELSE "completed"
                /\ settled' = ~db.raised
         /\ call' = [fn |-> "update_venues_from_unmatched_events",
                     unmatched_events |-> order, before |-> Tables]
    /\ UNCHANGED <<event_seq, pc, unmatched_events, cursor, upserted, today,
                   lead_activities, df_venues, procs>>

NextOrder ==
    \/ \E event \in EventInputs : insert_source_events(event)
    \/ RunMerge

SpecOrder == Init /\ [][NextOrder]_vars

\* the columns of a venue row that the comparison of two runs looks at
ComparedColumns(row) ==
    [name |-> row.name, address |-> row.address, venue_type |-> row.venue_type,
     status |-> row.status, first_seen_date |-> row.first_seen_date,
     last_seen_date |-> row.last_seen_date, naics_code |-> row.naics_code,
     priority_score |-> row.priority_score]

\* what a run leaves, with the venue ids taken out: for every event the row of
\* its venue, the pairs of events that share a venue, and the number of rows
Outcome(db) ==
    [rows |-> [e \in DOMAIN db.source_events |->
                 IF db.source_events[e].venue_id = NullId THEN <<>>
                 ELSE <<ComparedColumns(db.venues[db.source_events[e].venue_id])>>],
     together |-> { <<e, f>> \in (DOMAIN db.source_events) \X (DOMAIN db.source_events) :
                      /\ db.source_events[e].venue_id # NullId
                      /\ db.source_events[e].venue_id = db.source_events[f].venue_id },
     count |-> Cardinality(DOMAIN db.venues)]

\* C24: a run that completes yields the same venue rows and the same links,
\* up to the venue ids, as it does in every other order in which the query
\* can return the batch (rows of one event_date come in any order) and in
\* which it completes
C24_FetchOrdersAgree ==
    [][ (call'.fn = "update_venues_from_unmatched_events" /\ call' # call
         /\ outcome' = "completed")
        => \A order \in get_unmatched_source_events(source_events) :
             ~merge_events(Tables, order, 1).raised
             => Outcome(merge_events(Tables, order, 1))
                  = Outcome([venues |-> venues', source_events |-> source_events'])
      ]_vars

----------------------------------------------------------------------------
(* The score written by an upsert *)

\* the score update_venues_from_unmatched_events computes from one event
event_score(event) ==
    calculate_priority_score(Prepared[event].venue_type, Prepared[event].status,
                             event.event_date, FALSE, FALSE, 1)

\* C25: when a merge run has processed an event, the priority_score of the
\* venue it is linked to, created or matched, is the score computed from that
\* event alone; a draft without a score is inserted with score 50
C25_ScoreIsReplaced ==
    [][ /\ (InLoop /\ outcome' = "linked")
           => LET event_id == unmatched_events[cursor]
                  venue_id == source_events'[event_id].venue_id
              IN  venues'[venue_id].priority_score
                    = event_score(EventOf(source_events[event_id]))
        /\ \A venue_data \in UpsertDrafts :
             insert_row(venue_data).priority_score
               = IF "priority_score" \in DOMAIN venue_data
                 THEN venue_data.priority_score ELSE 50
      ]_vars

\* an event has just been merged into a venue that another event created, and
\* its score differs from the score of that other event and is computed
\* from a venue_type that is not the stored one
C25_Witness ==
    /\ pc = "merge"
    /\ outcome = "linked"
    /\ cursor > 1
    /\ LET event_id == unmatched_events[cursor - 1]
           venue_id == source_events[event_id].venue_id
       IN  /\ Prepared[EventOf(source_events[event_id])].venue_type
                # venues[venue_id].venue_type
           /\ \E other \in DOMAIN source_events :
                /\ other # event_id
                /\ source_events[other].venue_id = venue_id
                /\ venues[venue_id].name = source_events[other].raw_name
                /\ event_score(EventOf(source_events[other]))
                     > venues[venue_id].priority_score

----------------------------------------------------------------------------
(* etl/merge.py: recalculate_all_priority_scores *)

\* two spellings of one business, from two sources, on one day
RecalcEvents ==
    { e \in EventInputs :
        /\ e.city = T_Dallas /\ e.raw_address = T_MainSt
        /\ e.raw_name \in RawNames /\ e.event_date = 1 }

\* COUNT(DISTINCT se.source_system) of the LEFT JOIN, for one venue
source_count(venue_id) ==
    Cardinality({ source_events[e].source_system :
                    e \in { x \in DOMAIN source_events :
                              source_events[x].venue_id = venue_id } })

\* new_score of one venue row
new_score(venue, count) ==
    calculate_priority_score(venue.venue_type, venue.status, venue.first_seen_date,
                             ~Falsy(venue.phone), ~Falsy(venue.website),
                             IF count = 0 THEN 1 ELSE count)

\* a slip: COUNT(se.id) instead of COUNT(DISTINCT se.source_system)
recalculate_all_priority_scores_count_events ==
    /\ pc = "idle"
    /\ call.fn \in {"none", "recalculate_all_priority_scores"}
    /\ venues' = [id \in DOMAIN venues |->
                    [venues[id] EXCEPT !.priority_score =
                        new_score(venues[id],
                                  Cardinality({ x \in DOMAIN source_events :
                                                  source_events[x].venue_id = id }))]]
    /\ call' = [fn |-> "recalculate_all_priority_scores",
                updated |-> Cardinality(DOMAIN venues)]
    /\ outcome' = "recalculated"
    /\ UNCHANGED <<venue_seq, source_events, event_seq, pc, unmatched_events, cursor,
                   merged, settled, upserted, today, lead_activities, df_venues,
                   procs>>

\* updated = recalculate_all_priority_scores(conn)
recalculate_all_priority_scores ==
    /\ pc = "idle"
    /\ call.fn \in {"none", "recalculate_all_priority_scores"}
    /\ venues' = [id \in DOMAIN venues |->
                    [venues[id] EXCEPT !.priority_score =
                        new_score(venues[id], source_count(id))]]
    /\ call' = [fn |-> "recalculate_all_priority_scores",
                updated |-> Cardinality(DOMAIN venues)]
    /\ outcome' = "recalculated"
    /\ UNCHANGED <<venue_seq, source_events, event_seq, pc, unmatched_events, cursor,
                   merged, settled, upserted, today, lead_activities, df_venues,
                   procs>>

NextRecalc ==
    \/ \E event \in RecalcEvents : insert_source_events(event)
    \/ StartMerge
    \/ MergeEvent
    \/ FinishMerge
    \/ \E venue_id \in 1..MaxVenues : \E details \in PlaceDetails :
         EnrichWrite(venue_id, details)
    \/ recalculate_all_priority_scores

SpecRecalc == Init /\ [][NextRecalc]_vars

\* the distinct source_system values among the events linked to a venue
LinkedSources(venue_id) ==
    { source_events[e].source_system : e \in LinkedEvents(venue_id) }

\* C26: a recalculation pass sets every venue's priority_score to the score
\* of its stored venue_type, status and first_seen_date, of whether it has a
\* phone and a website, and of the number of distinct sources among its
\* linked events (1 when none); it changes nothing else and returns the
\* number of venues
C26_RecalculatedFromStoredFields ==
    [][ (outcome' = "recalculated")
        => /\ DOMAIN venues' = DOMAIN venues
           /\ \A id \in DOMAIN venues :
                venues'[id] =
                  [venues[id] EXCEPT !.priority_score =
                     calculate_priority_score(
                        venues[id].venue_type, venues[id].status,
                        venues[id].first_seen_date,
                        venues[id].phone \notin {Null, ""},
                        venues[id].website \notin {Null, ""},
                        IF LinkedSources(id) = {} THEN 1
                        ELSE Cardinality(LinkedSources(id)))]
           /\ call'.updated = Cardinality(DOMAIN venues)
           /\ UNCHANGED <<source_events, lead_activities, venue_seq, event_seq>>
      ]_vars

\* a pass has rescored a venue that has a phone and two events of one source
C26_Witness ==
    /\ outcome = "recalculated"
    /\ \E id \in DOMAIN venues :
         /\ ~Falsy(venues[id].phone)
         /\ Cardinality(LinkedEvents(id)) >= 2
         /\ Cardinality(LinkedSources(id)) = 1

----------------------------------------------------------------------------
(* Upserts and lead operations on the same venues *)

\* drafts of one venue, of two statuses and two dates, and a draft of the
\* same business in another city
LeadDrafts ==
    { d \in FullDrafts :
        /\ d.status \in {"permitting", "open"}
        /\ d.first_seen_date \in {1, MaxDate}
        /\ d.phone = "p1" }
    \cup
    { d \in EnrichDrafts :
        d.city = T_Plano /\ d.first_seen_date = 1 /\ "phone" \notin DOMAIN d }

\* the arguments the dashboard passes to update_lead_status for a lost lead
LeadStatusArgs ==
    [lead_status : {"lost"}, next_follow_up : {Null, "2026-01-05"},
     competitor : {"Toast"}, lost_reason : {Null}]

\* db.update_lead_status(conn, venue_id, ...)
CallUpdateLeadStatus(venue_id, args) ==
    /\ venues' = update_lead_status(venues, venue_id, args.lead_status,
                                    args.next_follow_up, args.competitor,
                                    args.lost_reason)
    /\ outcome' = "lead_status"
    /\ UNCHANGED <<lead_activities, df_venues>>
    /\ LeadFrame

\* update_follow_up(conn, venue_id, follow_up_date); the Done button passes None
CallUpdateFollowUp(venue_id, follow_up_date) ==
    /\ venues' = update_follow_up(venues, venue_id, follow_up_date)
    /\ outcome' = "follow_up"
    /\ UNCHANGED <<lead_activities, df_venues>>
    /\ LeadFrame

\* update_notes(conn, venue_id, notes)
CallUpdateNotes(venue_id, notes) ==
    /\ venues' = update_notes(venues, venue_id, notes)
    /\ outcome' = "notes"
    /\ UNCHANGED <<lead_activities, df_venues>>
    /\ LeadFrame

NextLead ==
    \/ \E venue_data \in LeadDrafts : CallUpsertVenue(venue_data)
    \/ \E venue_id \in 1..MaxVenues : \E args \in LeadStatusArgs :
         CallUpdateLeadStatus(venue_id, args)
    \/ \E venue_id \in 1..MaxVenues : \E follow_up_date \in {Null, "2026-01-05"} :
         CallUpdateFollowUp(venue_id, follow_up_date)
    \/ \E venue_id \in 1..MaxVenues : CallUpdateNotes(venue_id, "n1")

SpecLead == Init /\ [][NextLead]_vars

\* the columns of the venue lifecycle
LifecycleColumns ==
    {"venue_type", "status", "first_seen_date", "last_seen_date", "priority_score"}

\* C27: an upsert that matches a venue changes at most the eight updated
\* columns of one row and leaves every other row alone; a lead operation
\* changes no lifecycle column of any row
C27_UpsertAndLeadFrames ==
    [][ /\ (outcome' = "updated")
           => /\ DOMAIN venues' = DOMAIN venues
              /\ \E id \in DOMAIN venues :
                   /\ \A other \in DOMAIN venues \ {id} : venues'[other] = venues[other]
                   /\ \A c \in DOMAIN venues[id] \ UpdatedColumns :
                        venues'[id][c] = venues[id][c]
        /\ (outcome' \in {"lead_status", "follow_up", "notes"})
           => /\ DOMAIN venues' = DOMAIN venues
              /\ \A id \in DOMAIN venues : \A c \in LifecycleColumns :
                   venues'[id][c] = venues[id][c]
      ]_vars

\* an upsert has matched a venue whose lead fields and notes are set, and has
\* moved its last_seen_date past its first_seen_date
C27_Witness ==
    /\ outcome = "updated"
    /\ \E id \in DOMAIN venues :
         /\ venues[id].lead_status = "lost"
         /\ venues[id].competitor = "Toast"
         /\ venues[id].next_follow_up # Null
         /\ venues[id].notes = "n1"
         /\ venues[id].last_seen_date > venues[id].first_seen_date

----------------------------------------------------------------------------
(* A merge run that keeps running *)

\* a step of the for loop of update_venues_from_unmatched_events, or its return
LoopStep ==
    \/ MergeSkip
    \/ MergeEvent
    \/ MergeTypeError
    \/ FinishMerge

NextLive ==
    \/ \E event \in LiveEvents : insert_source_events(event)
    \/ StartMerge
    \/ LoopStep

\* the loop is sequential code of one process: an iteration that can run does
SpecLive == Init /\ [][NextLive]_vars /\ WF_vars(LoopStep)

\* the running merge has fetched the event, which has a usable name and address
FetchedUsable(event_id) ==
    IF pc = "merge" /\ event_id \in Range(unmatched_events)
    THEN ~EmptyKey(source_events[event_id]) ELSE FALSE

\* the running merge has linked the event
LinkedInRun(event_id) ==
    IF pc = "merge" /\ event_id \in DOMAIN source_events
    THEN Linked(event_id) ELSE FALSE

\* C28: an event with a usable name and address that a merge run has fetched
\* is linked to a venue before the run is over, unless upsert_venue raises
\* and ends the run
C28_FetchedEventsGetLinked ==
    \A event_id \in 1..MaxEvents :
        FetchedUsable(event_id) ~> (LinkedInRun(event_id) \/ outcome = "type_error")

\* a run has just linked an event of unknown type and unknown status
C28_Witness ==
    /\ pc = "merge"
    /\ outcome = "linked"
    /\ cursor > 1
    /\ Linked(unmatched_events[cursor - 1])
    /\ LET event == EventOf(source_events[unmatched_events[cursor - 1]])
       IN  /\ infer_venue_type_from_event(event) = Null
           /\ infer_status_from_event(event) = "unknown"

----------------------------------------------------------------------------
(* The venue an event is linked to *)

\* C29: every linked event points to a stored venue whose normalized_name,
\* normalized_address and city are normalize_name(raw_name),
\* normalize_address(raw_address) and city of the event
C29_LinkedVenueHasEventTriple ==
    \A event_id \in DOMAIN source_events :
        Linked(event_id)
        => LET row == source_events[event_id]
           IN  /\ row.venue_id \in DOMAIN venues
               /\ Triple(venues[row.venue_id])
                    = <<NormalizedKey[EventOf(row)].name,
                        NormalizedKey[EventOf(row)].address, row.city>>

\* two events of different spellings are linked to one venue
C29_Witness ==
    \E event_id \in DOMAIN source_events, other \in DOMAIN source_events :
        /\ Linked(event_id)
        /\ source_events[other].venue_id = source_events[event_id].venue_id
        /\ source_events[other].raw_name # source_events[event_id].raw_name

----------------------------------------------------------------------------
(* The city normalization pass *)

\* str.upper() on one character
upper_char(c) ==
    IF \E i \in DOMAIN LOWER : LOWER[i] = c
    THEN UPPER[CHOOSE i \in DOMAIN LOWER : LOWER[i] = c]
    ELSE c

\* a cased character
IsCased(c) == c \in Range(LOWER) \/ c \in Range(UPPER)

\* str.title(): a cased character is upper-cased after an uncased character
\* or at the start and lower-cased after a cased one
title(s) ==
    [i \in DOMAIN s |->
        IF i = 1 \/ ~IsCased(s[i - 1]) THEN upper_char(s[i]) ELSE lower_char(s[i])]

\* normalized.title() with ' Of ' and ' The ' put back in lower case
proper_name(normalized) ==
    replace(replace(title(normalized),
                    <<" ","O","f"," ">>, <<" ","o","f"," ">>),
            <<" ","T","h","e"," ">>, <<" ","t","h","e"," ">>)

RECURSIVE comma_split(_)
\* s.split(',')
comma_split(s) ==
    IF \E i \in DOMAIN s : s[i] = ","
    THEN LET n == CHOOSE i \in DOMAIN s : s[i] = "," /\ \A j \in 1..(i - 1) : s[j] # ","
         IN  <<SubSeq(s, 1, n - 1)>> \o comma_split(SubSeq(s, n + 1, Len(s)))
    ELSE <<s>>

\* the rows of SELECT LOWER(city), GROUP_CONCAT(DISTINCT city), COUNT(*) ...
\* WHERE city IS NOT NULL GROUP BY LOWER(city), as the updates the loop makes
\* of them: (normalized, variation, count) for every variation of the split
city_updates(vs) ==
    { <<lower(vs[id].city), variation, Cardinality({ o \in DOMAIN vs :
            vs[o].city # NULL /\ lower(vs[o].city) = lower(vs[id].city) })>> :
        id \in { v \in DOMAIN vs : vs[v].city # NULL },
        variation \in UNION { Range(comma_split(vs[o].city)) :
            o \in { v \in DOMAIN vs : vs[v].city # NULL } } }

\* the updates of one group: the variations of the cities of that group
group_updates(vs) ==
    { u \in city_updates(vs) :
        \E id \in DOMAIN vs :
            /\ vs[id].city # NULL
            /\ lower(vs[id].city) = u[1]
            /\ u[2] \in Range(comma_split(vs[id].city)) }

\* the orders the loops can take: groups by count DESC, each group in one
\* piece, its variations in any order
update_orders(vs) ==
    LET U == group_updates(vs)
        n == Cardinality(U)
    IN  { order \in [1..n -> U] :
            /\ \A i, j \in 1..n : order[i] = order[j] => i = j
            /\ \A i, j \in 1..n : i < j => order[i][3] >= order[j][3]
            /\ \A i, j, k \in 1..n :
                 (i < k /\ k < j /\ order[i][1] = order[j][1])
                 => order[k][1] = order[i][1] }

RECURSIVE update_cities(_, _, _)
\* for row in cities: for variation in variations:
\*     if variation != proper_name: UPDATE venues SET city = ? WHERE city = ?
update_cities(vs, order, i) ==
    IF i > Len(order) THEN vs
    ELSE LET proper == proper_name(order[i][1])
             variation == order[i][2]
         IN  update_cities(
                 IF variation # proper
                 THEN [id \in DOMAIN vs |->
                         IF SqlEq(vs[id].city, variation)
                         THEN [vs[id] EXCEPT !.city = proper]
                         ELSE vs[id]]
                 ELSE vs,
                 order, i + 1)

\* normalize_cities(): one pass and its commit
normalize_cities ==
    /\ pc = "idle"
    /\ call.fn \in {"none", "normalize_cities"}
    /\ \E order \in update_orders(venues) :
         /\ venues' = update_cities(venues, order, 1)
         /\ call' = [fn |-> "normalize_cities",
                     updates |-> Cardinality({ id \in DOMAIN venues :
                                     venues'[id].city # venues[id].city })]
    /\ outcome' = "cities_normalized"
    /\ UNCHANGED <<venue_seq, source_events, event_seq, pc, unmatched_events, cursor,
                   merged, settled, upserted, today, lead_activities, df_venues,
                   procs>>

NextCities ==
    \/ \E event \in CityEvents : insert_source_events(event)
    \/ StartMerge
    \/ MergeEvent
    \/ FinishMerge
    \/ normalize_cities

SpecCities == Init /\ [][NextCities]_vars

\* no two rows of a venues table have one triple
OneVenuePerTriple(vs) ==
    \A a, b \in DOMAIN vs : Triple(vs[a]) = Triple(vs[b]) => a = b

\* the lookup of upsert_venue for the triple of every row finds that row only
LookupFindsOne(vs) ==
    \A id \in DOMAIN vs :
        find_existing(vs, [normalized_name |-> vs[id].normalized_name,
                           normalized_address |-> vs[id].normalized_address,
                           city |-> vs[id].city]) = {id}

\* C30: every step that writes venue rows, the city normalization pass
\* included, keeps the triples unique: when no two rows shared a triple before
\* the step, none do after it, and the lookup of an upsert for the triple of
\* any row finds exactly that row
C30_WritesKeepTriplesUnique ==
    [][OneVenuePerTriple(venues)
       => OneVenuePerTriple(venues') /\ LookupFindsOne(venues')]_vars

====
